---- MODULE Spec2Model ----
(***************************************************************************)
(* Research orchestration engine of gpt-researcher: the ResearchConductor  *)
(* (conduct_research on the web branch, the MCP pre-pass, sub-query        *)
(* planning, the concurrent sub-query fan-out with URL de-duplication) and *)
(* persona selection (choose_agent).  The components the conductor relies  *)
(* on are modelled next to it, each with a specification of its own: the   *)
(* pure functions (context combination, strategy resolution, the MCP tool  *)
(* loop, tool selection, result normalisation), the cost record, the MCP   *)
(* client manager and the browser scraper.                                 *)
(*                                                                         *)
(* Strings are modelled as sequences of tokens; Python's None, lists and   *)
(* strings that one variable may hold are kept apart by a "type" field.    *)
(***************************************************************************)
EXTENDS Integers, Sequences, FiniteSets, TLC

\* ---------------------------------------------------------------- bounds
MaxPlanned == 1
NumUrls == 1
MaxEntries == 2      \* MCP context entries handed to one combination
MaxCostCalls == 3    \* add_costs calls on one researcher
MaxToolCalls == 3    \* tool calls in one LLM response
MaxItems == 2        \* items of a list a tool returns
NumTools == 2        \* tools the MCP servers offer
MaxIndices == 2      \* tool selections in one LLM response
MaxSearches == 3     \* MCP research invocations of one task
NumScrapes == 6      \* concurrent scrape_async calls
MaxManagerCalls == 4 \* concurrent calls on one MCPClientManager
MaxConfigs == 2      \* MCP server configurations of one task

\* ------------------------------------------------------------- constants
DefaultMaxTools == 3 \* select_relevant_tools(..., max_tools: int = 3)
max_browsers == 3    \* NoDriverScraper.max_browsers
browser_load_threshold == 5  \* NoDriverScraper.browser_load_threshold

\* ------------------------------------------------------------- vocabulary
OriginalQuery == "q0"
Queries == {"q0", "q1", "q2", "q3"}
Urls == 1..NumUrls
Strategies == {"fast", "deep", "disabled"}
ReportTypes == {"research_report", "subtopic_report"}
WebSockets == {"healthy", "failing"}

RECURSIVE SeqsUpTo(_, _)
SeqsUpTo(S, n) ==
    IF n = 0 THEN {<<>>}
    ELSE LET shorter == SeqsUpTo(S, n - 1)
         IN shorter \cup {Append(s, x) : s \in {t \in shorter : Len(t) = n - 1}, x \in S}

Range(s) == {s[i] : i \in 1..Len(s)}

\* "mcpretriever" in r.__name__.lower()
IsMcp(r) == r = "MCPRetriever"

\* Retriever lists the configuration can produce (Config.parse_retrievers keeps
\* the order the user wrote): one web retriever (RETRIEVER=tavily, the default
\* without MCP servers), MCP alone (the default with MCP servers), two web
\* retrievers, and MCP before or after a web retriever.
RetrieverLists ==
    {<<"WebRetriever1">>,
     <<"MCPRetriever">>,
     <<"WebRetriever1", "WebRetriever2">>,
     <<"MCPRetriever", "WebRetriever1">>,
     <<"WebRetriever1", "MCPRetriever">>}

HasMcp(rs) == \E i \in 1..Len(rs) : IsMcp(rs[i])

\* ------------------------------------------------------- persona selection
\* An LLM outcome of choose_agent, described by what the three parsers of the
\* code make of it:
\*   isNone      create_chat_completion raised, response is still None
\*   strict      what json.loads(response) yields ("error": it raises)
\*   strictKeys  the strict parse has both "server" and "agent_role_prompt"
\*   repair      what json_repair.loads(response) yields
\*   repairKeys  the repaired value has both keys, with truthy values
\*   frag        what re.search(r"{.*?}") finds and whether json.loads takes it
\*   fragKeys    the parsed fragment has both keys
AgentResponse(kind) ==
    CASE kind = "llm_raises" ->
           [isNone |-> TRUE, strict |-> "error", strictKeys |-> FALSE, repair |-> "error",
            repairKeys |-> FALSE, frag |-> "none", fragKeys |-> FALSE]
      [] kind = "valid_object" ->
           [isNone |-> FALSE, strict |-> "dict", strictKeys |-> TRUE, repair |-> "dict",
            repairKeys |-> TRUE, frag |-> "parses", fragKeys |-> TRUE]
      [] kind = "not_json" ->
           [isNone |-> FALSE, strict |-> "error", strictKeys |-> FALSE, repair |-> "str",
            repairKeys |-> FALSE, frag |-> "none", fragKeys |-> FALSE]
      [] kind = "json_array" ->
           [isNone |-> FALSE, strict |-> "list", strictKeys |-> FALSE, repair |-> "list",
            repairKeys |-> FALSE, frag |-> "none", fragKeys |-> FALSE]
      [] kind = "object_missing_key" ->
           [isNone |-> FALSE, strict |-> "dict", strictKeys |-> FALSE, repair |-> "dict",
            repairKeys |-> FALSE, frag |-> "parses", fragKeys |-> FALSE]
      [] kind = "nested_object_missing_key" ->
           [isNone |-> FALSE, strict |-> "dict", strictKeys |-> FALSE, repair |-> "dict",
            repairKeys |-> FALSE, frag |-> "broken", fragKeys |-> FALSE]
      [] kind = "text_with_valid_object" ->
           [isNone |-> FALSE, strict |-> "error", strictKeys |-> FALSE, repair |-> "dict",
            repairKeys |-> TRUE, frag |-> "parses", fragKeys |-> TRUE]
      [] kind = "text_with_fragment_missing_key" ->
           [isNone |-> FALSE, strict |-> "error", strictKeys |-> FALSE, repair |-> "dict",
            repairKeys |-> FALSE, frag |-> "parses", fragKeys |-> FALSE]
      [] kind = "text_with_broken_fragment" ->
           [isNone |-> FALSE, strict |-> "error", strictKeys |-> FALSE, repair |-> "str",
            repairKeys |-> FALSE, frag |-> "broken", fragKeys |-> FALSE]

AgentResponseKinds ==
    {"llm_raises", "valid_object", "not_json", "json_array", "object_missing_key",
     "nested_object_missing_key", "text_with_valid_object",
     "text_with_fragment_missing_key", "text_with_broken_fragment"}

AgentReturn(a) == [raised |-> FALSE, agent |-> a]
AgentRaise == [raised |-> TRUE, agent |-> "none"]
DefaultAgent == "default_agent"

\* extract_json_with_regex: the first "{...}" of the response, None without one;
\* re.search raises TypeError when the response is None.
extract_json_with_regex(r) ==
    IF r.isNone THEN "TypeError" ELSE IF r.frag = "none" THEN "None" ELSE "match"

\* handle_json_error: json_repair, then the regex fragment, then the default.
handle_json_error(r) ==
    IF ~r.isNone /\ r.repair = "dict" /\ r.repairKeys
    THEN AgentReturn("agent")
    ELSE \* no pair returned; every Exception of the repair step is swallowed
         LET json_string == extract_json_with_regex(r) IN
         IF json_string = "TypeError" THEN AgentRaise
         ELSE IF json_string = "None" THEN AgentReturn(DefaultAgent)
         ELSE IF r.frag = "broken" THEN AgentReturn(DefaultAgent)   \* JSONDecodeError caught
         ELSE IF r.fragKeys THEN AgentReturn("agent")
         ELSE AgentRaise                                           \* KeyError is not caught

\* choose_agent: strict json.loads first; any Exception goes to handle_json_error.
choose_agent(kind) ==
    LET r == AgentResponse(kind) IN
    IF ~r.isNone /\ r.strict = "dict" /\ r.strictKeys
    THEN AgentReturn("agent")
    ELSE handle_json_error(r)

\* ------------------------------------------------------------ MCP research
McpBodyOf(q) ==
    CASE q = "q0" -> "mcp_q0" [] q = "q1" -> "mcp_q1" [] q = "q2" -> "mcp_q2" [] q = "q3" -> "mcp_q3"
McpResult(q, body) == [title |-> "tool", href |-> "mcp://tool", body |-> body]

\* What MCPRetriever.search can return for a query: search() catches every
\* exception itself and then returns [].
McpSearchResults(q) ==
    {<<>>, <<McpResult(q, McpBodyOf(q))>>, <<McpResult(q, "")>>}

\* stream_output raises when websocket.send_json raises.
SendOutcomes(ws) == IF ws = "failing" THEN {TRUE, FALSE} ELSE {TRUE}
\* Outcomes of the sends a verbose-only stream_output makes: nothing is sent
\* (and nothing can raise) unless verbose is set.
VerboseSend(vb, ws) == IF vb THEN SendOutcomes(ws) ELSE {TRUE}

\* _execute_mcp_research: instantiate, stream stage 1, search, stream the
\* result; every exception is caught, streamed (which may raise again) and
\* answered with [].
ExecuteMcpResearch(q, vb, ws) ==
    {[invoked |-> TRUE, raised |-> FALSE, results |-> res] : res \in McpSearchResults(q)}
    \cup
    (IF vb /\ ws = "failing"
     THEN {[invoked |-> inv, raised |-> rs, results |-> <<>>] : inv \in BOOLEAN, rs \in BOOLEAN}
     ELSE {})

ContextEntry(result, q) ==
    [content |-> result.body, url |-> result.href, title |-> result.title,
     query |-> q, source_type |-> "mcp"]

RECURSIVE EntriesOf(_, _)
EntriesOf(results, q) ==
    IF results = <<>> THEN <<>>
    ELSE LET rest == EntriesOf(Tail(results), q) IN
         IF Head(results).body # "" THEN <<ContextEntry(Head(results), q)>> \o rest ELSE rest

\* _execute_mcp_research_for_queries([q], mcp_retrievers) for the one MCP
\* retriever class of the list: [invoked, raised, entries].
ExecuteMcpForQuery(q, vb, ws) ==
    UNION {
      IF r.raised
      THEN \* handler streams mcp_cache_error (verbose holds here)
           {[invoked |-> r.invoked, raised |-> ~ok, entries |-> <<>>] : ok \in SendOutcomes(ws)}
      ELSE IF r.results = <<>>
      THEN {[invoked |-> r.invoked, raised |-> FALSE, entries |-> <<>>]}
      ELSE \* entries appended, then mcp_results_cached is streamed
           {[invoked |-> r.invoked, raised |-> FALSE, entries |-> EntriesOf(r.results, q)]}
           \cup
           (IF vb /\ ws = "failing"
            THEN {[invoked |-> r.invoked, raised |-> rs, entries |-> EntriesOf(r.results, q)]
                    : rs \in BOOLEAN}
            ELSE {})
      : r \in ExecuteMcpResearch(q, vb, ws) }

\* ------------------------------------------------------------ web research
\* URL lists a retriever's search can yield (hits without href are dropped by
\* the caller, so only the hrefs are kept).
UrlLists == {s \in SeqsUpTo(Urls, NumUrls) : \A i \in 1..Len(s) - 1 : s[i] < s[i + 1]}

\* Outcome of retriever_class(query).search(): a list of hits, a list of hits
\* that ends in an entry which is no dict, an exception, or a value that is no
\* list (None).
SearchOutcomes ==
    {[kind |-> "list", urls |-> u] : u \in UrlLists}
    \cup {[kind |-> "broken_hit", urls |-> u] : u \in UrlLists \ {<<>>}}
    \cup {[kind |-> "raises", urls |-> u] : u \in {<<>>}}
    \cup {[kind |-> "none", urls |-> u] : u \in {<<>>}}

WebToken(i) == <<"web1", "web2", "web3", "web4">>[i]
CiteToken(url) ==
    IF url = "mcp://tool" THEN "cite(mcp://tool)" ELSE "cite(other)"

\* text.strip() on a token string: blanks at both ends are dropped.
RECURSIVE LStrip(_)
LStrip(t) == IF t # <<>> /\ Head(t) = " " THEN LStrip(Tail(t)) ELSE t
RECURSIVE RStrip(_)
RStrip(t) == IF t # <<>> /\ t[Len(t)] = " " THEN RStrip(SubSeq(t, 1, Len(t) - 1)) ELSE t
Strip(t) == RStrip(LStrip(t))

\* sep.join(parts) for parts that are token strings.
RECURSIVE Join(_, _)
Join(sep, parts) ==
    IF parts = <<>> THEN <<>>
    ELSE IF Len(parts) = 1 THEN parts[1]
    ELSE parts[1] \o <<sep>> \o Join(sep, Tail(parts))

\* The formatted MCP entries of _combine_mcp_and_web_context.
RECURSIVE McpFormatted(_)
McpFormatted(entries) ==
    IF entries = <<>> THEN <<>>
    ELSE LET e == Head(entries)
             rest == McpFormatted(Tail(entries))
         IN IF e.content # "" /\ e.content # " "
            THEN <<(<<e.content>> \o
                    (IF e.url # "" /\ e.url # "mcp://llm_analysis"
                     THEN <<"\n\n*src: ", e.title, CiteToken(e.url)>>
                     ELSE <<"\n\n*src: ", e.title>>))>> \o rest
            ELSE rest

\* _combine_mcp_and_web_context(mcp_context, web_context, sub_query)
CombineMcpAndWebContext(mcp_context, web_context) ==
    LET webPart == IF Strip(web_context) # <<>> THEN <<Strip(web_context)>> ELSE <<>>
        mcp_formatted == McpFormatted(mcp_context)
        mcpPart == IF mcp_formatted # <<>>
                   THEN <<Join("\n\n---\n\n", mcp_formatted)>> ELSE <<>>
    IN Join("\n\n", webPart \o mcpPart)

\* [c for c in context if c]
RECURSIVE NonEmpty(_)
NonEmpty(cs) ==
    IF cs = <<>> THEN <<>>
    ELSE IF Head(cs) # <<>> THEN <<Head(cs)>> \o NonEmpty(Tail(cs)) ELSE NonEmpty(Tail(cs))

\* Values of Python variables that hold a string, a list or None.
PyStr(t) == [type |-> "str", val |-> t]
PyList(l) == [type |-> "list", val |-> l]
PyNone == [type |-> "None", val |-> <<>>]

\* ------------------------------------------------------------------- state
VARIABLES
    retrievers,         \* researcher.retrievers: list of retriever classes
    mcp_strategy,       \* researcher.mcp_strategy, resolved at construction
    report_type,        \* researcher.report_type
    verbose,            \* researcher.verbose
    websocket,          \* researcher.websocket: "healthy" or "failing" send_json
    agent,              \* researcher.agent and .role ("none": not chosen yet)
    visited_urls,       \* researcher.visited_urls
    context,            \* researcher.context as returned by conduct_research
    mcp_results_cache,  \* conductor._mcp_results_cache (PyNone or PyList)
    pc,                 \* position of conduct_research ("raised_in_...": an
                        \*          exception left conduct_research from there)
    sub_queries,        \* the sub-query list handed to asyncio.gather
    llm_calls,          \* the LLM calls of generate_sub_queries, in order
    plan,               \* what plan_research returned (history)
    tasks,              \* the _process_sub_query coroutines of the fan-out
    mcp_invocations,    \* history: number of MCPRetriever.search calls per site and query
    scraper_urls,       \* history: how often each URL was handed to browse_urls
    healthy_urls,       \* history: URLs returned by searches that did not fail
    survivor_urls,      \* history: URLs a healthy search returned in a loop where
                        \*          the search of another retriever failed
    skipped_urls,       \* history: URLs _get_new_urls found visited already
    cache_writes,       \* history: assignments to _mcp_results_cache
    call,               \* pure functions: the call under study (function, arguments)
    returned,           \* pure functions: what the call returned, once it has
    research_costs,     \* researcher.research_costs, in cost units
    cost_log,           \* history: the add_costs calls made, each with the total
                        \*          observed after it
    mcp_configs,        \* researcher.mcp_configs holds server configurations
    mcp_searches,       \* the MCPRetriever instances of the task, in the order
                        \*          of their creation, each with its client manager
    clients_constructed, \* history: number of MultiServerMCPClient objects built
    browsers,           \* NoDriverScraper.browsers: the browsers ever created, each
                        \*          with its place (pool or stopped), processing_count
                        \*          and domain_semaphores
    scrapes,            \* the scrape_async calls: position, browser, result
    manager,            \* one MCPClientManager shared by concurrent callers: _client,
                        \*          holder of _client_lock, and the history of the
                        \*          constructions and closes
    manager_calls       \* the get_or_create_client and close_client calls on it

cfgVars == <<retrievers, mcp_strategy, report_type, verbose, websocket>>
histVars == <<mcp_invocations, scraper_urls, healthy_urls, survivor_urls, skipped_urls, cache_writes>>
conductorVars == <<retrievers, mcp_strategy, report_type, verbose, websocket, agent,
                   visited_urls, context, mcp_results_cache, pc, sub_queries, llm_calls,
                   plan, tasks, mcp_invocations, scraper_urls, healthy_urls, survivor_urls,
                   skipped_urls, cache_writes>>
functionVars == <<call, returned>>
costVars == <<research_costs, cost_log>>
mcpVars == <<mcp_configs, mcp_searches, clients_constructed>>
scraperVars == <<browsers, scrapes>>
managerVars == <<manager, manager_calls>>
componentVars == <<functionVars, costVars, mcpVars, scraperVars, managerVars>>
vars == <<conductorVars, componentVars>>

\* No function call is under study.
NoCall == [fn |-> "none"]
NotReturned == [done |-> FALSE]
FunctionsIdle == call = NoCall /\ returned = NotReturned
\* research_costs = 0.0 of the constructor, no add_costs call made.
CostsIdle == research_costs = 0 /\ cost_log = <<>>
\* No MCP retriever instantiated.
McpIdle == mcp_configs = TRUE /\ mcp_searches = <<>> /\ clients_constructed = 0
\* No browser created, no scrape called.
ScraperIdle == browsers = <<>> /\ scrapes = <<>>
\* A manager as its constructor leaves it, no call made on it.
NewManager == [client |-> 0, lock |-> 0, made |-> <<>>, closes |-> 0]
ManagerIdle == manager = NewManager /\ manager_calls = <<>>
ComponentsIdle == FunctionsIdle /\ CostsIdle /\ McpIdle /\ ScraperIdle /\ ManagerIdle
\* What a component leaves alone: the conductor and the other components.
outsideFunctions == <<conductorVars, costVars, mcpVars, scraperVars, managerVars>>
outsideCosts == <<conductorVars, functionVars, mcpVars, scraperVars, managerVars>>
outsideMcp == <<conductorVars, functionVars, costVars, scraperVars, managerVars>>
outsideScraper == <<conductorVars, functionVars, costVars, mcpVars, managerVars>>
outsideManager == <<conductorVars, functionVars, costVars, mcpVars, scraperVars>>

Sites == {"prepass", "plan", "subquery"}
NoInvocations == [k \in Sites \X Queries |-> 0]
CountInvocation(inv, site, q, invoked) ==
    IF invoked THEN [inv EXCEPT ![<<site, q>>] = @ + 1] ELSE inv

RECURSIVE SumOver(_, _)
SumOver(f, S) ==
    IF S = {} THEN 0 ELSE LET x == CHOOSE x \in S : TRUE IN f[x] + SumOver(f, S \ {x})
TotalInvocations == SumOver(mcp_invocations, Sites \X Queries)
InvocationsAt(site) == SumOver(mcp_invocations, {site} \X Queries)

Init ==
    /\ retrievers \in RetrieverLists
    /\ mcp_strategy \in Strategies
    /\ report_type \in ReportTypes
    /\ verbose \in BOOLEAN
    /\ websocket \in WebSockets
    /\ agent \in {"none", "agent"}        \* agent and role may be given by the caller
    /\ visited_urls \in SUBSET Urls     \* the caller may pass visited_urls in
    /\ context = PyList(<<>>)
    /\ mcp_results_cache = PyNone
    /\ pc = "conduct_research"
    /\ sub_queries = <<>>
    /\ llm_calls = <<>>
    /\ plan = PyNone
    /\ tasks = <<>>
    /\ mcp_invocations = NoInvocations
    /\ scraper_urls = [u \in Urls |-> 0]
    /\ healthy_urls = {}
    /\ survivor_urls = {}
    /\ skipped_urls = {}
    /\ ComponentsIdle
    /\ cache_writes = 0

\* ------------------------------------------------------- conduct_research
\* A fresh sub-query coroutine, as asyncio.gather schedules it.
NewTask(q) ==
    [pc |-> "start", sub_query |-> q, found |-> <<>>, new_urls |-> <<>>,
     mcp_context |-> <<>>, result |-> <<>>]

\* conduct_research up to the persona choice: visited_urls is cleared and the
\* two verbose start events are streamed.
ConductResearchStart ==
    /\ pc = "conduct_research"
    /\ visited_urls' = {}
    /\ \E ok \in VerboseSend(verbose, websocket) :
          pc' = IF ok THEN "choose_agent" ELSE "raised_in_conduct_research"
    /\ UNCHANGED <<componentVars, cfgVars, agent, context, mcp_results_cache, sub_queries, llm_calls, plan,
                   tasks, histVars>>

\* "if not (agent and role): agent, role = await choose_agent(...)"
ChooseAgent ==
    /\ pc = "choose_agent"
    /\ IF agent # "none"
       THEN /\ pc' = "prepass"
            /\ UNCHANGED agent
       ELSE \E kind \in AgentResponseKinds :
               LET res == choose_agent(kind) IN
               IF res.raised
               THEN /\ pc' = "raised_in_choose_agent"
                    /\ UNCHANGED agent
               ELSE /\ pc' = "prepass"
                    /\ agent' = res.agent
    /\ UNCHANGED <<componentVars, cfgVars, visited_urls, context, mcp_results_cache, sub_queries, llm_calls,
                   plan, tasks, histVars>>

\* _get_context_by_web_search, the MCP pre-pass (lines 256-304).
McpPrepass ==
    /\ pc = "prepass"
    /\ IF HasMcp(retrievers) /\ mcp_results_cache.type = "None"
       THEN IF mcp_strategy \notin {"disabled", "deep"}
            THEN \* fast (an unknown strategy is run as fast, without the event)
                 \E ok \in VerboseSend(verbose /\ mcp_strategy = "fast", websocket) :
                    IF ~ok
                    THEN /\ pc' = "raised_in_prepass"
                         /\ UNCHANGED <<mcp_results_cache, mcp_invocations, cache_writes>>
                    ELSE \E o \in ExecuteMcpForQuery(OriginalQuery, verbose, websocket) :
                            /\ mcp_invocations' =
                                 CountInvocation(mcp_invocations, "prepass", OriginalQuery, o.invoked)
                            /\ IF o.raised
                               THEN /\ pc' = "raised_in_prepass"
                                    /\ UNCHANGED <<mcp_results_cache, cache_writes>>
                               ELSE /\ pc' = "plan_search"
                                    /\ mcp_results_cache' = PyList(o.entries)
                                    /\ cache_writes' = cache_writes + 1
            ELSE \* disabled or deep: only a verbose event
                 /\ \E ok \in VerboseSend(verbose, websocket) :
                       pc' = IF ok THEN "plan_search" ELSE "raised_in_prepass"
                 /\ UNCHANGED <<mcp_results_cache, mcp_invocations, cache_writes>>
       ELSE /\ pc' = "plan_search"
            /\ UNCHANGED <<mcp_results_cache, mcp_invocations, cache_writes>>
    /\ UNCHANGED <<componentVars, cfgVars, agent, visited_urls, context, sub_queries, llm_calls, plan, tasks,
                   scraper_urls, healthy_urls, survivor_urls, skipped_urls>>

\* plan_research, lines 32-47: the planning events are streamed (verbose or
\* not) and get_search_results searches with retrievers[0], an MCP retriever
\* included; an exception of that search is not caught.
PlanSearch ==
    /\ pc = "plan_search"
    /\ \E ok1 \in SendOutcomes(websocket), ok2 \in SendOutcomes(websocket) :
          IF ~ok1
          THEN /\ pc' = "raised_in_plan_research"
               /\ UNCHANGED mcp_invocations
          ELSE IF IsMcp(retrievers[1])
          THEN /\ mcp_invocations' = CountInvocation(mcp_invocations, "plan", OriginalQuery, TRUE)
               /\ pc' = IF ok2 THEN "plan_outline" ELSE "raised_in_plan_research"
          ELSE /\ UNCHANGED mcp_invocations
               /\ \E o \in SearchOutcomes :
                     pc' = IF o.kind \in {"list", "broken_hit"} /\ ok2
                           THEN "plan_outline" ELSE "raised_in_plan_research"
    /\ UNCHANGED <<componentVars, cfgVars, agent, visited_urls, context, mcp_results_cache, sub_queries,
                   llm_calls, plan, tasks, scraper_urls, healthy_urls, survivor_urls, skipped_urls,
                   cache_writes>>

\* ------------------------------------------------------ sub-query planning
\* What the LLM can answer to the sub-query prompt: a JSON array of up to
\* MaxPlanned sub-queries (new ones, q1, q2, ...) or text json_repair finds no
\* JSON in; "raises": the call raised.
PlannedQueries == <<"q1", "q2", "q3">>
PlannerResponses ==
    {[kind |-> "array", queries |-> SubSeq(PlannedQueries, 1, n)] : n \in 0..MaxPlanned}
    \cup {[kind |-> "not_json", queries |-> p] : p \in {<<>>}}
LlmRaises == [kind |-> "raises", queries |-> <<>>]
LlmOutcomes == PlannerResponses \cup {LlmRaises}

\* json_repair.loads(response): the list, or "" when there is no JSON.
JsonRepairLoads(resp) ==
    IF resp.kind = "array" THEN PyList(resp.queries) ELSE PyStr(<<>>)

\* A create_chat_completion call of generate_sub_queries: the model, the
\* max_tokens argument and what the call gave.
LlmCall(model, max_tokens, outcome) ==
    [model |-> model, max_tokens |-> max_tokens, outcome |-> outcome]

\* A generation that goes to the smart LLM as soon as the first call raised.
generate_sub_queries_without_retry(o1, o2, o3) ==
    IF o1 # LlmRaises
    THEN [raised |-> FALSE, value |-> JsonRepairLoads(o1),
          calls |-> <<LlmCall("strategic", "None", o1)>>]
    ELSE [raised |-> o3 = LlmRaises,
          value |-> IF o3 = LlmRaises THEN PyNone ELSE JsonRepairLoads(o3),
          calls |-> <<LlmCall("strategic", "None", o1),
                      LlmCall("smart", "smart_token_limit", o3)>>]

\* generate_sub_queries: strategic LLM, retry with max_tokens, smart LLM; the
\* third call is outside every try.
generate_sub_queries(o1, o2, o3) ==
    LET first == LlmCall("strategic", "None", o1)
        retry == LlmCall("strategic", "strategic_token_limit", o2)
        smart == LlmCall("smart", "smart_token_limit", o3)
    IN IF o1 # LlmRaises
       THEN [raised |-> FALSE, value |-> JsonRepairLoads(o1), calls |-> <<first>>]
       ELSE IF o2 # LlmRaises
       THEN [raised |-> FALSE, value |-> JsonRepairLoads(o2), calls |-> <<first, retry>>]
       ELSE IF o3 # LlmRaises
       THEN [raised |-> FALSE, value |-> JsonRepairLoads(o3), calls |-> <<first, retry, smart>>]
       ELSE [raised |-> TRUE, value |-> PyNone, calls |-> <<first, retry, smart>>]

\* plan_research_outline: [query] when MCP is the only retriever, else the
\* generated sub-queries.
plan_research_outline(rs, o1, o2, o3) ==
    IF Len(rs) = 1 /\ IsMcp(rs[1])
    THEN [raised |-> FALSE, value |-> PyList(<<OriginalQuery>>), calls |-> <<>>]
    ELSE generate_sub_queries(o1, o2, o3)

\* plan_research, lines 49-64: the outline is generated.
PlanOutline ==
    /\ pc = "plan_outline"
    /\ \E o1 \in LlmOutcomes, o2 \in LlmOutcomes, o3 \in LlmOutcomes :
          LET out == plan_research_outline(retrievers, o1, o2, o3) IN
          /\ llm_calls' = out.calls
          /\ plan' = out.value
          /\ pc' = IF out.raised THEN "raised_in_generate_sub_queries" ELSE "fan_out"
    /\ UNCHANGED <<componentVars, cfgVars, agent, visited_urls, context, mcp_results_cache, sub_queries,
                   tasks, histVars>>

\* "if report_type != 'subtopic_report': sub_queries.append(query)": append
\* exists on a list only; iterating "" yields no sub-query.
AppendOriginal(planned, rt) ==
    IF rt # "subtopic_report"
    THEN IF planned.type = "list"
         THEN [raised |-> FALSE, list |-> Append(planned.val, OriginalQuery)]
         ELSE [raised |-> TRUE, list |-> <<>>]
    ELSE [raised |-> FALSE, list |-> IF planned.type = "list" THEN planned.val ELSE <<>>]

\* _get_context_by_web_search, lines 306-331: the original query is appended,
\* the sub-queries are streamed and their coroutines handed to asyncio.gather.
FanOut ==
    /\ pc = "fan_out"
    /\ \E ok \in VerboseSend(verbose, websocket) :
          LET appended == AppendOriginal(plan, report_type) IN
          IF appended.raised \/ ~ok
          THEN /\ pc' = IF appended.raised THEN "raised_in_append" ELSE "raised_in_fan_out"
               /\ UNCHANGED <<sub_queries, tasks>>
          ELSE /\ pc' = "gather"
               /\ sub_queries' = appended.list
               /\ tasks' = [i \in 1..Len(appended.list) |-> NewTask(appended.list[i])]
    /\ llm_calls' = <<>>
    /\ plan' = PyNone
    /\ UNCHANGED <<componentVars, cfgVars, agent, visited_urls, context, mcp_results_cache, histVars>>

\* ------------------------------------------------------ _process_sub_query
\* A coroutine is followed from one access to shared state (visited_urls, the
\* MCP cache, the scraper) to the next; the awaits in between touch only its
\* locals, so they are taken together with the step they precede.
Running(t) == t.pc \notin {"done", "raised"}

\* The locals of a coroutine that has left the try block.
Left(t, where) ==
    [t EXCEPT !.pc = where, !.found = <<>>, !.new_urls = <<>>, !.mcp_context = <<>>,
              !.result = <<>>]

\* The except block of _process_sub_query (lines 546-555): the error event is
\* streamed outside any try (sent tells whether that send went through), then
\* "" is returned. It touches the coroutine only, so it is taken together with
\* the step that raised.
Except(t, sent) == Left(t, IF sent THEN "done" ELSE "raised")

\* A reader of the cache that gets nothing out of it.
CachedContextDropped(cache) == <<>>

\* "mcp_context = self._mcp_results_cache.copy()"
CachedContext(cache) == cache.val

\* Lines 426-495: the event before the try block (an exception there leaves
\* the coroutine), then the MCP context of the sub-query, by strategy.
TaskMcp(i) ==
    /\ i \in DOMAIN tasks
    /\ tasks[i].pc = "start"
    /\ \E ok0 \in VerboseSend(verbose, websocket) :
          IF ~ok0
          THEN /\ tasks' = [tasks EXCEPT ![i] = Left(@, "raised")]
               /\ UNCHANGED mcp_invocations
          ELSE IF ~HasMcp(retrievers) \/ mcp_strategy = "disabled"
          THEN /\ tasks' = [tasks EXCEPT ![i].pc = "search"]
               /\ UNCHANGED mcp_invocations
          ELSE \E ok \in VerboseSend(verbose, websocket) :
               IF ~ok
               THEN /\ \E sent \in VerboseSend(verbose, websocket) :
                          tasks' = [tasks EXCEPT ![i] = Except(@, sent)]
                    /\ UNCHANGED mcp_invocations
               ELSE IF mcp_strategy = "fast" /\ mcp_results_cache.type # "None"
               THEN \* the cached entries are copied
                    /\ tasks' = [tasks EXCEPT ![i].mcp_context = CachedContext(mcp_results_cache),
                                              ![i].pc = "search"]
                    /\ UNCHANGED mcp_invocations
               ELSE \* deep, or no cache: MCP research for this sub-query
                    \E o \in ExecuteMcpForQuery(tasks[i].sub_query, verbose, websocket) :
                       /\ mcp_invocations' =
                            CountInvocation(mcp_invocations, "subquery", tasks[i].sub_query,
                                            o.invoked)
                       /\ IF o.raised
                          THEN \E sent \in VerboseSend(verbose, websocket) :
                                  tasks' = [tasks EXCEPT ![i] = Except(@, sent)]
                          ELSE tasks' = [tasks EXCEPT ![i].mcp_context = o.entries,
                                                      ![i].pc = "search"]
    /\ UNCHANGED <<componentVars, cfgVars, agent, visited_urls, context, mcp_results_cache, pc, sub_queries,
                   llm_calls, plan, scraper_urls, healthy_urls, survivor_urls, skipped_urls, cache_writes>>

\* A loop that keeps the hrefs of a search whatever became of it.
SearchStepKeepsAll(found, r, o) ==
    IF IsMcp(r) THEN found ELSE found \o o.urls

\* _search_relevant_source_urls, one pass of the loop over the retrievers: MCP
\* retrievers are skipped; a search that raises, yields no list or a hit
\* without .get is logged and skipped (none of its hrefs is kept); the hrefs of
\* a healthy search are collected.
SearchStep(found, r, o) ==
    IF IsMcp(r) THEN found
    ELSE IF o.kind = "list" THEN found \o o.urls
    ELSE found

\* The loop over retrievers[from..]: outs[k] is the outcome of retriever k.
RECURSIVE SearchAll(_, _, _, _)
SearchAll(found, rs, outs, from) ==
    IF from > Len(rs) THEN found
    ELSE SearchAll(SearchStep(found, rs[from], outs[from]), rs, outs, from + 1)

\* The search of retriever k failed: it raised, or returned no list of dicts.
SearchFailed(rs, outs, k) == ~IsMcp(rs[k]) /\ outs[k].kind # "list"

\* The URLs the searches that did not fail returned.
HealthyUrls(rs, outs) ==
    UNION {IF ~IsMcp(rs[k]) /\ outs[k].kind = "list" THEN Range(outs[k].urls) ELSE {}
             : k \in 1..Len(rs)}

\* The URLs the healthy searches of a loop returned, when the search of some
\* other retriever of that loop failed.
SurvivorUrls(rs, outs) ==
    IF \E k \in 1..Len(rs) : SearchFailed(rs, outs, k) THEN HealthyUrls(rs, outs) ELSE {}

\* _get_new_urls without the test against visited_urls.
RECURSIVE GetNewUrlsUnchecked(_, _, _, _)
GetNewUrlsUnchecked(found, visited, new, vb) ==
    IF found = <<>>
    THEN [rest |-> <<>>, visited |-> visited, new |-> new, skipped |-> {}, awaits |-> FALSE]
    ELSE IF vb
    THEN [rest |-> Tail(found), visited |-> visited \cup {Head(found)},
          new |-> Append(new, Head(found)), skipped |-> {}, awaits |-> TRUE]
    ELSE GetNewUrlsUnchecked(Tail(found), visited \cup {Head(found)},
                             Append(new, Head(found)), vb)

\* _get_new_urls on the list found, up to its next await: the membership test
\* and the add are not separated by an await; the only await is the verbose
\* event that follows an add. rest is what is still to be looked at, skipped
\* the URLs that were visited already. (The caller shuffles the new URLs; only
\* their set is used from there on.)
RECURSIVE GetNewUrls(_, _, _, _)
GetNewUrls(found, visited, new, vb) ==
    IF found = <<>>
    THEN [rest |-> <<>>, visited |-> visited, new |-> new, skipped |-> {}, awaits |-> FALSE]
    ELSE IF Head(found) \in visited
    THEN [GetNewUrls(Tail(found), visited, new, vb) EXCEPT !.skipped = @ \cup {Head(found)}]
    ELSE IF vb
    THEN [rest |-> Tail(found), visited |-> visited \cup {Head(found)},
          new |-> Append(new, Head(found)), skipped |-> {}, awaits |-> TRUE]
    ELSE GetNewUrls(Tail(found), visited \cup {Head(found)}, Append(new, Head(found)), vb)

\* The coroutine after a stretch r of _get_new_urls: at the verbose event of
\* an added URL (which may raise), or through with the list.
AfterNewUrls(t, r, ws) ==
    IF r.awaits
    THEN {[t EXCEPT !.new_urls = r.new, !.found = r.rest, !.pc = "new_urls"]}
         \cup (IF ws = "failing" THEN {Except(t, sent) : sent \in BOOLEAN} ELSE {})
    ELSE {[t EXCEPT !.new_urls = r.new, !.found = <<>>, !.pc = "scrape"]}

\* What the loop of _search_relevant_source_urls can leave behind for a
\* retriever list, over every outcome of every search: the collected hrefs
\* and the URLs that survived the failure of another retriever.
SearchRuns ==
    [rs \in RetrieverLists |->
       {[found |-> SearchAll(<<>>, rs, outs, 1), healthy |-> HealthyUrls(rs, outs),
         survivors |-> SurvivorUrls(rs, outs)] :
          outs \in {o \in [1..Len(rs) -> SearchOutcomes] :
                      \A k \in 1..Len(rs) : IsMcp(rs[k]) => o[k].kind = "none"}}]

\* _search_relevant_source_urls: every retriever is searched in turn, then
\* _get_new_urls starts on the collected hrefs.
TaskSearch(i) ==
    /\ i \in DOMAIN tasks
    /\ tasks[i].pc = "search"
    /\ \E s \in {[r |-> GetNewUrls(run.found, visited_urls, <<>>, verbose),
                  healthy |-> run.healthy, survivors |-> run.survivors]
                   : run \in SearchRuns[retrievers]} :
          /\ visited_urls' = s.r.visited
          /\ healthy_urls' = healthy_urls \cup s.healthy
          /\ survivor_urls' = survivor_urls \cup s.survivors
          /\ skipped_urls' = skipped_urls \cup s.r.skipped
          /\ \E t \in AfterNewUrls(tasks[i], s.r, websocket) :
                tasks' = [tasks EXCEPT ![i] = t]
    /\ UNCHANGED <<componentVars, cfgVars, agent, context, mcp_results_cache, pc, sub_queries, llm_calls,
                   plan, mcp_invocations, scraper_urls, cache_writes>>

\* _get_new_urls resumed after the verbose event of an added URL.
TaskNewUrls(i) ==
    /\ i \in DOMAIN tasks
    /\ tasks[i].pc = "new_urls"
    /\ LET r == GetNewUrls(tasks[i].found, visited_urls, tasks[i].new_urls, verbose) IN
          /\ visited_urls' = r.visited
          /\ skipped_urls' = skipped_urls \cup r.skipped
          /\ \E t \in AfterNewUrls(tasks[i], r, websocket) :
                tasks' = [tasks EXCEPT ![i] = t]
    /\ UNCHANGED <<componentVars, cfgVars, agent, context, mcp_results_cache, pc, sub_queries, llm_calls,
                   plan, mcp_invocations, scraper_urls, healthy_urls, survivor_urls, cache_writes>>

RECURSIVE HandToScraper(_, _)
HandToScraper(counts, urls) ==
    IF urls = <<>> THEN counts
    ELSE HandToScraper([counts EXCEPT ![Head(urls)] = @ + 1], Tail(urls))

\* What scraping and ranking can come to: content that is relevant to the
\* sub-query (only when there was a URL to scrape), nothing, or an exception.
ScrapeOutcomes(new_urls) ==
    (IF new_urls # <<>> THEN {"content"} ELSE {}) \cup {"nothing", "raises"}

\* Lines 497-544: the verbose event and scraper_manager.browse_urls(new urls)
\* of _scrape_data_by_urls, the ranking of the scraped data, the combination
\* with the MCP context, the outcome event, the return.
TaskScrape(i) ==
    /\ i \in DOMAIN tasks
    /\ tasks[i].pc = "scrape"
    /\ \E ok \in VerboseSend(verbose, websocket) :
          IF ~ok
          THEN /\ \E sent \in VerboseSend(verbose, websocket) :
                     tasks' = [tasks EXCEPT ![i] = Except(@, sent)]
               /\ UNCHANGED scraper_urls
          ELSE /\ scraper_urls' = HandToScraper(scraper_urls, tasks[i].new_urls)
               /\ \E outcome \in ScrapeOutcomes(tasks[i].new_urls),
                     ok2 \in VerboseSend(verbose, websocket) :
                     LET web == IF outcome = "content" THEN <<WebToken(i)>> ELSE <<>> IN
                     IF outcome = "raises" \/ ~ok2
                     THEN \E sent \in VerboseSend(verbose, websocket) :
                             tasks' = [tasks EXCEPT ![i] = Except(@, sent)]
                     ELSE tasks' = [tasks EXCEPT
                                      ![i] = [Left(@, "done") EXCEPT
                                                !.result = CombineMcpAndWebContext(
                                                               tasks[i].mcp_context, web)]]
    /\ UNCHANGED <<componentVars, cfgVars, agent, visited_urls, context, mcp_results_cache, pc, sub_queries,
                   llm_calls, plan, mcp_invocations, healthy_urls, survivor_urls, skipped_urls,
                   cache_writes>>

\* ---------------------------------------------------------- asyncio.gather
TaskResults == [i \in DOMAIN tasks |-> tasks[i].result]

\* A join that keeps the empty sub-query contexts.
JoinContextUnfiltered(results) ==
    IF results # <<>> THEN PyStr(Join(" ", results)) ELSE PyList(<<>>)

\* " ".join of the non-empty sub-query contexts, [] when there is none.
JoinContext(results) ==
    LET kept == NonEmpty(results) IN
    IF kept # <<>> THEN PyStr(Join(" ", kept)) ELSE PyList(<<>>)

\* gather returns once every coroutine has returned.
GatherReturn ==
    /\ pc = "gather"
    /\ \A i \in DOMAIN tasks : tasks[i].pc = "done"
    /\ context' = JoinContext(TaskResults)
    /\ pc' = "finish"
    /\ UNCHANGED <<componentVars, cfgVars, agent, visited_urls, mcp_results_cache, sub_queries, llm_calls,
                   plan, tasks, histVars>>

\* gather (return_exceptions is not set) raises as soon as one coroutine has
\* raised; the others are not cancelled. The except block returns [].
GatherExcept ==
    /\ pc = "gather"
    /\ \E i \in DOMAIN tasks : tasks[i].pc = "raised"
    /\ context' = PyList(<<>>)
    /\ pc' = "finish"
    /\ UNCHANGED <<componentVars, cfgVars, agent, visited_urls, mcp_results_cache, sub_queries, llm_calls,
                   plan, tasks, histVars>>

\* conduct_research, lines 170-188: the context is stored, the final verbose
\* event streamed, the context returned.
Finish ==
    /\ pc = "finish"
    /\ \E ok \in VerboseSend(verbose, websocket) :
          pc' = IF ok THEN "done" ELSE "raised_in_conduct_research"
    /\ UNCHANGED <<componentVars, cfgVars, agent, visited_urls, context, mcp_results_cache, sub_queries,
                   llm_calls, plan, tasks, histVars>>

Next ==
    \/ ConductResearchStart
    \/ ChooseAgent
    \/ McpPrepass
    \/ PlanSearch
    \/ PlanOutline
    \/ FanOut
    \/ \E i \in 1..(MaxPlanned + 1) : TaskMcp(i)
    \/ \E i \in 1..(MaxPlanned + 1) : TaskSearch(i)
    \/ \E i \in 1..(MaxPlanned + 1) : TaskNewUrls(i)
    \/ \E i \in 1..(MaxPlanned + 1) : TaskScrape(i)
    \/ GatherReturn
    \/ GatherExcept
    \/ Finish

Spec == Init /\ [][Next]_vars

\* ---------------------------------------------------- the conductor at rest
\* A conductor that is constructed and not started, with no caller-supplied
\* state: the state the conductor has while a component is studied alone.
ConductorIdle ==
    /\ retrievers = <<"WebRetriever1">>
    /\ mcp_strategy = "fast"
    /\ report_type = "research_report"
    /\ verbose = FALSE
    /\ websocket = "healthy"
    /\ agent = "none"
    /\ visited_urls = {}
    /\ context = PyList(<<>>)
    /\ mcp_results_cache = PyNone
    /\ pc = "conduct_research"
    /\ sub_queries = <<>>
    /\ llm_calls = <<>>
    /\ plan = PyNone
    /\ tasks = <<>>
    /\ mcp_invocations = NoInvocations
    /\ scraper_urls = [u \in Urls |-> 0]
    /\ healthy_urls = {}
    /\ survivor_urls = {}
    /\ skipped_urls = {}
    /\ cache_writes = 0

\* A component studied alone: the conductor and the other components at rest.
FunctionsAlone == ConductorIdle /\ CostsIdle /\ McpIdle /\ ScraperIdle /\ ManagerIdle
CostsAlone == ConductorIdle /\ FunctionsIdle /\ McpIdle /\ ScraperIdle /\ ManagerIdle
McpAlone == ConductorIdle /\ FunctionsIdle /\ CostsIdle /\ ScraperIdle /\ ManagerIdle
ScraperAlone == ConductorIdle /\ FunctionsIdle /\ CostsIdle /\ McpIdle /\ ManagerIdle
ManagerAlone == ConductorIdle /\ FunctionsIdle /\ CostsIdle /\ McpIdle /\ ScraperIdle

\* ------------------------------------------------------------ pure functions
\* The functions are applied to arguments drawn from bounded sets: the initial
\* state holds a call, the action of the function returns its value.
Return(v) == [done |-> TRUE, val |-> v]

\* Arguments of _combine_mcp_and_web_context.  _execute_mcp_research_for_queries
\* makes an entry of every result whose content is truthy, so a content of
\* blanks is an entry; an empty content is not.
McpContents == {"mcp_text", " "}
McpUrls == {"mcp://tool", "mcp://llm_analysis"}
CombineEntries ==
    {[content |-> c, url |-> u, title |-> "tool", query |-> OriginalQuery, source_type |-> "mcp"]
       : c \in McpContents, u \in McpUrls}
WebContexts == {<<>>, <<" ">>, <<"web1">>, <<" ", "web1">>}
CombineCalls ==
    {[fn |-> "combine", mcp_context |-> m, web_context |-> w]
       : m \in SeqsUpTo(CombineEntries, MaxEntries), w \in WebContexts}

CombineReturns ==
    /\ call.fn = "combine"
    /\ ~returned.done
    /\ returned' = Return(CombineMcpAndWebContext(call.mcp_context, call.web_context))
    /\ UNCHANGED <<call, outsideFunctions>>

\* Arguments of GPTResearcher._resolve_mcp_strategy: the option mcp_strategy
\* (None when the caller gives none), the older option mcp_max_iterations
\* (None or a number) and the attribute mcp_strategy of the configuration
\* ("absent": the configuration has no such attribute).
StrategyNames == {"fast", "deep", "disabled", "optimized", "comprehensive", "unknown"}
PyInt(n) == [type |-> "int", val |-> n]
StrategyOptions == {PyNone} \cup {PyStr(n) : n \in StrategyNames}
IterationOptions == {PyNone} \cup {PyInt(n) : n \in {-1, 0, 1, 2}}
ConfigStrategies == {"absent"} \cup StrategyNames
ResolveCalls ==
    {[fn |-> "resolve", option |-> o, max_iterations |-> m, config |-> c]
       : o \in StrategyOptions, m \in IterationOptions, c \in ConfigStrategies}

\* GPTResearcher._resolve_mcp_strategy(mcp_strategy, mcp_max_iterations)
resolve_mcp_strategy(option, max_iterations, config) ==
    IF option.type # "None"
    THEN IF option.val \in {"fast", "deep", "disabled"} THEN option.val
         ELSE IF option.val = "optimized" THEN "fast"
         ELSE IF option.val = "comprehensive" THEN "deep"
         ELSE "fast"
    ELSE IF max_iterations.type # "None"
    THEN IF max_iterations.val = 0 THEN "disabled"
         ELSE IF max_iterations.val = 1 THEN "fast"
         ELSE IF max_iterations.val = -1 THEN "deep"
         ELSE "fast"
    ELSE IF config # "absent" /\ config \in {"fast", "deep", "disabled"} THEN config
    ELSE IF config # "absent" /\ config = "optimized" THEN "fast"
    ELSE IF config # "absent" /\ config = "comprehensive" THEN "deep"
    ELSE "fast"

\* ResearchConductor._get_mcp_strategy for a researcher whose mcp_strategy
\* attribute holds the given value.
get_mcp_strategy(researcher_strategy, config) ==
    IF researcher_strategy.type # "None" THEN researcher_strategy.val
    ELSE IF config # "absent" THEN config
    ELSE "fast"

\* The constructor resolves the strategy, the conductor reads it back.
ResolveReturns ==
    /\ call.fn = "resolve"
    /\ ~returned.done
    /\ returned' = Return(get_mcp_strategy(
                              PyStr(resolve_mcp_strategy(call.option, call.max_iterations,
                                                         call.config)),
                              call.config))
    /\ UNCHANGED <<call, outsideFunctions>>

\* ---- MCP research with tools
\* Items of a list a tool returns: a mapping with "title" and "body", a mapping
\* without "title", a string, a number.  text stands for what the item says.
ItemTypes == {"titled", "untitled", "str", "num"}
Item(type, text) == [type |-> type, text |-> text]
IsDict(item) == item.type \in {"titled", "untitled"}

\* What tool.ainvoke can give: an exception, None, a list of items, a mapping
\* that is no MCP wrapper, an MCP wrapper whose "content" is a string, a string.
ToolRaises == [type |-> "raises", val |-> <<>>]
ToolList(items) == [type |-> "list", val |-> items]
ToolValue(type, text) == [type |-> type, val |-> <<Item(type, text)>>]

\* "if result:" of the tool loop
Truthy(result) ==
    /\ result.type \notin {"raises", "None"}
    /\ result.type = "list" => result.val # <<>>

GenericTitle(tool_name) == <<"result of", tool_name>>
GenericHref(tool_name) == <<"mcp://", tool_name>>
IndexedHref(tool_name, i) == <<"mcp://", tool_name, "/", i>>

\* The list branch of _process_tool_result from item number i (counted from 0
\* as enumerate does): an entry for every item that is a mapping.
RECURSIVE ProcessListItems(_, _, _)
ProcessListItems(tool_name, items, i) ==
    IF items = <<>> THEN <<>>
    ELSE LET item == Head(items)
             rest == ProcessListItems(tool_name, Tail(items), i + 1)
         IN IF IsDict(item)
            THEN IF item.type = "titled"
                 THEN <<[title |-> <<"title of", item.text>>,
                         href |-> IndexedHref(tool_name, i), body |-> item.text]>> \o rest
                 ELSE <<[title |-> GenericTitle(tool_name),
                         href |-> IndexedHref(tool_name, i), body |-> item.text]>> \o rest
            ELSE rest

\* MCPResearchSkill._process_tool_result(tool_name, result)
ProcessToolResult(tool_name, result) ==
    IF result.type = "wrapper"
    THEN <<[title |-> GenericTitle(tool_name), href |-> GenericHref(tool_name),
            body |-> result.val[1].text]>>
    ELSE IF result.type = "list"
    THEN ProcessListItems(tool_name, result.val, 0)
    ELSE IF result.type \in {"titled", "untitled"}
    THEN <<[title |-> IF result.type = "titled" THEN <<"title of", result.val[1].text>>
                      ELSE GenericTitle(tool_name),
            href |-> GenericHref(tool_name), body |-> result.val[1].text]>>
    ELSE <<[title |-> GenericTitle(tool_name), href |-> GenericHref(tool_name),
            body |-> result.val[1].text]>>

\* The tools handed to the LLM, and what the LLM may name in a tool call.
SelectedToolNames == {"toolA"}
\* What the tool of a call does when it is invoked.
LoopOutcomes ==
    {ToolRaises, PyNone, ToolList(<<>>), ToolValue("untitled", "a"),
     ToolList(<<Item("titled", "b")>>), ToolList(<<Item("str", "c")>>)}
ToolCalls ==
    {[name |-> "toolA", outcome |-> o] : o \in LoopOutcomes}
    \cup {[name |-> "toolX", outcome |-> o] : o \in {ToolRaises}}

\* A loop that a skipped call ends.
SkipEndsLoop(tool_calls, i) == Len(tool_calls) + 1
\* "continue": the loop goes on with the call after the skipped one.
Skip(tool_calls, i) == i + 1

\* The for loop over response.tool_calls from call number i on: results holds
\* research_results, invoked the numbers of the calls whose tool was invoked.
RECURSIVE RunToolCalls(_, _, _)
RunToolCalls(tool_calls, i, acc) ==
    IF i > Len(tool_calls) THEN acc
    ELSE LET tool_call == tool_calls[i] IN
         IF tool_call.name \notin SelectedToolNames
         THEN RunToolCalls(tool_calls, Skip(tool_calls, i), acc)
         ELSE LET invoked == Append(acc.invoked, i) IN
              IF tool_call.outcome.type = "raises"
              THEN RunToolCalls(tool_calls, Skip(tool_calls, i),
                                [acc EXCEPT !.invoked = invoked])
              ELSE IF Truthy(tool_call.outcome)
              THEN RunToolCalls(tool_calls, i + 1,
                                [results |-> acc.results \o
                                             ProcessToolResult(tool_call.name, tool_call.outcome),
                                 invoked |-> invoked])
              ELSE RunToolCalls(tool_calls, i + 1, [acc EXCEPT !.invoked = invoked])

LlmAnalysis(content) ==
    IF content # ""
    THEN <<[title |-> <<"analysis">>, href |-> <<"mcp://llm_analysis">>, body |-> content]>>
    ELSE <<>>

\* MCPResearchSkill.conduct_research_with_tools for an LLM response with the
\* given tool calls and content.
ConductResearchWithTools(tool_calls, content) ==
    LET loop == RunToolCalls(tool_calls, 1, [results |-> <<>>, invoked |-> <<>>])
    IN [results |-> loop.results \o LlmAnalysis(content), invoked |-> loop.invoked]

ResearchCalls ==
    {[fn |-> "research", tool_calls |-> t, content |-> c]
       : t \in SeqsUpTo(ToolCalls, MaxToolCalls), c \in {"", "analysis"}}

ResearchReturns ==
    /\ call.fn = "research"
    /\ ~returned.done
    /\ LET r == ConductResearchWithTools(call.tool_calls, call.content)
       IN returned' = [done |-> TRUE, val |-> r.results, invoked |-> r.invoked]
    /\ UNCHANGED <<call, outsideFunctions>>

\* ---- the result normaliser on lists
ListItems == {Item(t, x) : t \in ItemTypes, x \in {"a", "b"}}
NormaliseCalls ==
    {[fn |-> "normalise", tool_name |-> "toolA", result |-> ToolList(items)]
       : items \in SeqsUpTo(ListItems, MaxItems)}

NormaliseReturns ==
    /\ call.fn = "normalise"
    /\ ~returned.done
    /\ returned' = Return(ProcessToolResult(call.tool_name, call.result))
    /\ UNCHANGED <<call, outsideFunctions>>

\* ---- tool selection
\* A tool with its place in all_tools and the score the keyword patterns of
\* the fallback give to its name and description.
PatternScores == {0, 1, 3}
ToolLists ==
    UNION {{[i \in 1..n |-> [id |-> i, score |-> f[i]]] : f \in [1..n -> PatternScores]}
             : n \in 0..NumTools}

\* What _call_llm_for_tool_selection and the parsing make of the LLM: no
\* response (also when the call raised), text without JSON, text whose braces
\* hold no JSON, a JSON object whose selections carry an index that is no
\* number (the comparison raises), a JSON object with a list of indices.
SelectionIndices == SeqsUpTo((-1)..NumTools, MaxIndices)
SelectionResponses ==
    {[kind |-> k, indices |-> <<>>] : k \in {"none", "text", "broken_json", "bad_index"}}
    \cup {[kind |-> "json", indices |-> ix] : ix \in SelectionIndices}

\* The first position of a tool with the highest score.
FirstBest(tools) ==
    CHOOSE i \in 1..Len(tools) :
        /\ \A j \in 1..Len(tools) : tools[j].score <= tools[i].score
        /\ \A j \in 1..(i - 1) : tools[j].score < tools[i].score
Without(tools, i) == SubSeq(tools, 1, i - 1) \o SubSeq(tools, i + 1, Len(tools))
\* scored_tools.sort(key=score, reverse=True): stable, highest score first
RECURSIVE SortByScore(_)
SortByScore(tools) ==
    IF tools = <<>> THEN <<>>
    ELSE LET i == FirstBest(tools) IN <<tools[i]>> \o SortByScore(Without(tools, i))

Min(a, b) == IF a <= b THEN a ELSE b

\* MCPToolSelector._fallback_tool_selection(all_tools, max_tools)
FallbackToolSelection(all_tools, max_tools) ==
    LET scored_tools == SortByScore(SelectSeq(all_tools, LAMBDA t : t.score > 0))
    IN SubSeq(scored_tools, 1, Min(max_tools, Len(scored_tools)))

\* The loop over selection_result["selected_tools"]: the tool of every index
\* that is in range is appended (indices count from 0).
RECURSIVE ToolsOfIndices(_, _)
ToolsOfIndices(all_tools, indices) ==
    IF indices = <<>> THEN <<>>
    ELSE LET tool_index == Head(indices)
             rest == ToolsOfIndices(all_tools, Tail(indices))
         IN IF 0 <= tool_index /\ tool_index < Len(all_tools)
            THEN <<all_tools[tool_index + 1]>> \o rest
            ELSE rest

\* MCPToolSelector.select_relevant_tools(query, all_tools, max_tools)
SelectRelevantTools(all_tools, max_tools, response) ==
    IF all_tools = <<>> THEN <<>>
    ELSE LET limit == Min(max_tools, Len(all_tools)) IN
         IF response.kind # "json"
         THEN FallbackToolSelection(all_tools, limit)
         ELSE LET selected_tools == ToolsOfIndices(all_tools, response.indices) IN
              IF selected_tools = <<>>
              THEN FallbackToolSelection(all_tools, limit)
              ELSE selected_tools

SelectCalls ==
    {[fn |-> "select", all_tools |-> t, max_tools |-> m, response |-> r]
       : t \in ToolLists, m \in 1..DefaultMaxTools, r \in SelectionResponses}

SelectReturns ==
    /\ call.fn = "select"
    /\ ~returned.done
    /\ returned' = Return(SelectRelevantTools(call.all_tools, call.max_tools, call.response))
    /\ UNCHANGED <<call, outsideFunctions>>

\* ---- the result normaliser on normalised records
\* A mapping is a function from its keys to its values, "key in d" is
\* membership in DOMAIN d.  The mappings here are the two shapes of a
\* normalised record: what _process_tool_result returns (title, href, body)
\* and the context entry _execute_mcp_research_for_queries makes of it
\* (content, url, title, query, source_type); none has "structured_content".
Get(d, key, default) == IF key \in DOMAIN d THEN d[key] ELSE default
StrOf(d) == "str(mapping)"

\* _process_tool_result for a result that is a mapping: the MCP wrapper branch
\* when it has "content" (here a string), else the plain mapping branch.
ProcessMapping(tool_name, d) ==
    IF "structured_content" \in DOMAIN d \/ "content" \in DOMAIN d
    THEN <<[title |-> GenericTitle(tool_name), href |-> GenericHref(tool_name),
            body |-> Get(d, "content", StrOf(d))]>>
    ELSE <<[title |-> Get(d, "title", GenericTitle(tool_name)),
            href |-> Get(d, "href", Get(d, "url", GenericHref(tool_name))),
            body |-> Get(d, "body", Get(d, "content", StrOf(d)))]>>

\* _process_tool_result for a list of mappings, from item number i.
RECURSIVE ProcessMappingItems(_, _, _)
ProcessMappingItems(tool_name, items, i) ==
    IF items = <<>> THEN <<>>
    ELSE LET item == Head(items)
             rest == ProcessMappingItems(tool_name, Tail(items), i + 1)
         IN IF "title" \in DOMAIN item /\ ("content" \in DOMAIN item \/ "body" \in DOMAIN item)
            THEN <<[title |-> Get(item, "title", ""),
                    href |-> Get(item, "href", Get(item, "url", IndexedHref(tool_name, i))),
                    body |-> Get(item, "body", Get(item, "content", StrOf(item)))]>> \o rest
            ELSE <<[title |-> GenericTitle(tool_name), href |-> IndexedHref(tool_name, i),
                    body |-> StrOf(item)]>> \o rest

\* The records of a first normalisation, kept as they are or made context
\* entries, are handed to the normaliser again, one record alone or the list.
NormalisedLists ==
    {ProcessToolResult("toolA", ToolList(items)) : items \in SeqsUpTo(ListItems, MaxItems)}
    \cup {ProcessToolResult("toolA", ToolValue(t, x)) : t \in ItemTypes \cup {"wrapper"}, x \in {"a", "b"}}
InShape(shape, records) ==
    [k \in DOMAIN records |->
       IF shape = "retriever" THEN records[k] ELSE ContextEntry(records[k], OriginalQuery)]
RenormaliseCalls ==
    {[fn |-> "renormalise", tool_name |-> tool, shape |-> shape, alone |-> alone,
      records |-> InShape(shape, l)]
       : tool \in {"toolA", "toolB"}, shape \in {"retriever", "context_entry"},
         alone \in BOOLEAN, l \in {x \in NormalisedLists : x # <<>>}}
RenormaliseReturns ==
    /\ call.fn = "renormalise"
    /\ ~returned.done
    /\ returned' = Return(IF call.alone
                          THEN ProcessMapping(call.tool_name, call.records[1])
                          ELSE ProcessMappingItems(call.tool_name, call.records, 0))
    /\ UNCHANGED <<call, outsideFunctions>>

\* ---- source curation
\* What create_chat_completion gives to curate_sources: an exception, a text
\* json.loads cannot read, or the JSON list of the curated sources.
CurationOutcomes == {"raises", "text", "json"}
CuratedSources == PyList(<<"curated">>)
\* research_data as conduct_research hands it over: [] or the joined context.
SourceData == {PyList(<<>>), PyStr(<<"context">>)}

\* SourceCurator.curate_sources(source_data).  sent[1] is the outcome of the
\* event streamed before the try block, sent[2] of the event streamed inside
\* it after the parse, sent[3] of the event the except block streams; all
\* three are streamed only when verbose is set.  An exception inside the try
\* block, the one of a send included, is caught and answered with source_data.
curate_sources(source_data, llm, sent) ==
    IF ~sent[1] THEN [raised |-> TRUE, val |-> PyNone]
    ELSE IF llm = "json" /\ sent[2] THEN [raised |-> FALSE, val |-> CuratedSources]
    ELSE IF ~sent[3] THEN [raised |-> TRUE, val |-> PyNone]
    ELSE [raised |-> FALSE, val |-> source_data]

CurateCalls ==
    {c \in [fn : {"curate"}, source_data : SourceData, verbose : BOOLEAN,
            websocket : WebSockets, llm : CurationOutcomes, sent : [1..3 -> BOOLEAN]] :
       \A k \in 1..3 : c.sent[k] \in VerboseSend(c.verbose, c.websocket)}
CurateReturns ==
    /\ call.fn = "curate"
    /\ ~returned.done
    /\ LET r == curate_sources(call.source_data, call.llm, call.sent)
       IN returned' = [done |-> TRUE, val |-> r.val, raised |-> r.raised]
    /\ UNCHANGED <<call, outsideFunctions>>

\* ---- the probes of the server
\* The environment of the server process, by what the probes and the start-up
\* read of it: the retrievers named by RETRIEVER, the providers named by the
\* LLM and embedding settings, the variables that are set (and not empty),
\* REQUIRED_ENV, STRICT_ENV, and whether files can be made in "outputs" and in
\* DOC_PATH (both directories exist).  Of the tables of _collect_env_issues
\* the rows of these retrievers and providers are kept; "duckduckgo" and
\* "anthropic" have no row.
RetrieverNames == {"tavily", "google", "duckduckgo"}
ProviderNames == {"openai", "anthropic"}
EnvKeys == {"TAVILY_API_KEY", "GOOGLE_API_KEY", "GOOGLE_CX_KEY", "OPENAI_API_KEY"}
retriever_requirements(retriever) ==
    CASE retriever = "tavily" -> {"TAVILY_API_KEY"}
      [] retriever = "google" -> {"GOOGLE_API_KEY", "GOOGLE_CX_KEY"}
      [] OTHER -> {}
provider_requirements(provider) ==
    CASE provider = "openai" -> {"OPENAI_API_KEY"}
      [] OTHER -> {}
Environments ==
    [retrievers : SUBSET RetrieverNames, providers : SUBSET ProviderNames,
     set : SUBSET EnvKeys, required_env : {{}, {"OPENAI_API_KEY"}}, strict_env : BOOLEAN,
     outputs_writable : BOOLEAN, doc_path_writable : BOOLEAN]

\* _collect_env_issues(): one issue for every required variable that is not
\* set.  The issues are kept as a set: their order and a repeated retriever
\* name change neither whether one is reported nor whether the list is empty.
CollectEnvIssues(env) ==
    UNION {{[missing |-> key, for |-> r] : key \in retriever_requirements(r) \ env.set}
             : r \in env.retrievers}
    \cup UNION {{[missing |-> key, for |-> x] : key \in provider_requirements(x) \ env.set}
                  : x \in env.providers}
    \cup {[missing |-> key, for |-> "REQUIRED_ENV"] : key \in env.required_env \ env.set}

\* _check_path_writable(path): an issue when no file can be made there.
CheckPathWritable(path, writable) ==
    IF writable THEN {} ELSE {[missing |-> "writable", for |-> path]}

\* len(issues) == 0
Ready(issues) == issues = {}

\* GET /readyz and GET /healthz: both handlers return a mapping, which FastAPI
\* answers with status 200.
readiness_check(env) ==
    LET issues == CollectEnvIssues(env)
                    \cup CheckPathWritable("outputs", env.outputs_writable)
                    \cup CheckPathWritable("DOC_PATH", env.doc_path_writable)
    IN [answered |-> TRUE, status_code |-> 200,
        json |-> [ready |-> Ready(issues), issues |-> issues]]
health_check == [answered |-> TRUE, status_code |-> 200, json |-> [status |-> "ok"]]

\* lifespan(app), the start-up: with issues of the environment and STRICT_ENV
\* set it raises RuntimeError; the application does not start and serves no
\* request.
StartupRaises(env) == CollectEnvIssues(env) # {} /\ env.strict_env
NoAnswer == [answered |-> FALSE, status_code |-> 0, json |-> [status |-> "none"]]

\* The server is started in an environment and a probe is requested.
Probes == {"/healthz", "/readyz"}
Probe(env, path) ==
    IF StartupRaises(env) THEN NoAnswer
    ELSE IF path = "/readyz" THEN readiness_check(env) ELSE health_check
ProbeCalls == {[fn |-> "probe", env |-> env, path |-> path] : env \in Environments, path \in Probes}
ProbeReturns ==
    /\ call.fn = "probe"
    /\ ~returned.done
    /\ returned' = Return(Probe(call.env, call.path))
    /\ UNCHANGED <<call, outsideFunctions>>

\* ---- MCP server configurations
\* A configuration of mcp_configs, by the keys the conversion reads: "name"
\* (absent, or a string; the one given name here is the name the conversion
\* itself gives to a nameless second configuration), "connection_url" (absent
\* or a URL, told by how it starts), "connection_type" (absent or a string)
\* and "command" (absent or given).  "args", "env" and "connection_token" are
\* copied next to the command and the transport and are left out.
UrlPrefixes == {"ws://", "wss://", "http://", "https://", "file://"}
ConnectionUrls == {PyNone} \cup {PyStr(<<prefix, "host">>) : prefix \in UrlPrefixes}
ConnectionTypes == {PyNone, PyStr("stdio"), PyStr("websocket")}
ConfigNames == {PyNone, PyStr(<<"mcp_server_", 2>>)}
ServerConfigs ==
    [name : ConfigNames, connection_url : ConnectionUrls, connection_type : ConnectionTypes,
     command : BOOLEAN]

\* connection_url.startswith((a, b))
StartsWith(url, prefixes) == url.val[1] \in prefixes
\* config.get("connection_type", "stdio")
GetConnectionType(config) ==
    IF config.connection_type = PyNone THEN "stdio" ELSE config.connection_type.val
\* config.get("name", f"mcp_server_{i+1}"); i counts from 0 in the code and
\* from 1 here.
ServerName(config, i) == IF config.name = PyNone THEN <<"mcp_server_", i>> ELSE config.name.val

\* The body of the loop: the server_config built for one configuration.
ServerConfig(config) ==
    LET url == config.connection_url
        transport ==
            IF url # PyNone /\ StartsWith(url, {"wss://", "ws://"}) THEN "websocket"
            ELSE IF url # PyNone /\ StartsWith(url, {"https://", "http://"}) THEN "streamable_http"
            ELSE GetConnectionType(config)
        has_url ==
            /\ url # PyNone
            /\ \/ StartsWith(url, {"wss://", "ws://", "https://", "http://"})
               \/ transport \in {"websocket", "streamable_http", "http"}
    IN [transport |-> transport,
        url |-> IF has_url THEN url ELSE PyNone,
        command |-> transport = "stdio" /\ config.command]

\* server_configs[server_name] = server_config, for the configurations in
\* their order: a name used before is assigned again.
RECURSIVE ConvertFrom(_, _, _)
ConvertFrom(configs, i, server_configs) ==
    IF i > Len(configs) THEN server_configs
    ELSE LET name == ServerName(configs[i], i) IN
         ConvertFrom(configs, i + 1,
                     [n \in DOMAIN server_configs \cup {name} |->
                        IF n = name THEN ServerConfig(configs[i]) ELSE server_configs[n]])
convert_configs_to_langchain_format(mcp_configs_list) == ConvertFrom(mcp_configs_list, 1, <<>>)

\* The calls with at most n configurations.
ConvertCalls(n) ==
    {[fn |-> "convert", configs |-> cs] : cs \in SeqsUpTo(ServerConfigs, n)}
ConvertReturns ==
    /\ call.fn = "convert"
    /\ ~returned.done
    /\ returned' = Return(convert_configs_to_langchain_format(call.configs))
    /\ UNCHANGED <<call, outsideFunctions>>

FunctionInit ==
    /\ FunctionsAlone
    /\ returned = NotReturned
    /\ \/ call \in CombineCalls
       \/ call \in ResolveCalls
       \/ call \in ResearchCalls
       \/ call \in NormaliseCalls
       \/ call \in SelectCalls
       \/ call \in ConvertCalls(MaxConfigs)
       \/ call \in RenormaliseCalls
       \/ call \in CurateCalls
       \/ call \in ProbeCalls

FunctionNext ==
    \/ CombineReturns
    \/ ResolveReturns
    \/ ResearchReturns
    \/ NormaliseReturns
    \/ SelectReturns
    \/ ConvertReturns
    \/ RenormaliseReturns
    \/ CurateReturns
    \/ ProbeReturns

FunctionSpec == FunctionInit /\ [][FunctionNext]_vars

\* ------------------------------------------------------------- cost record
\* What callers hand to add_costs: numbers (the estimates of the LLM and
\* embedding calls reach it through cost_callback; the method itself takes any
\* int or float) and a value that is no number.
CostArguments == {PyInt(n) : n \in {-1, 0, 1, 2}} \cup {PyStr(<<"cost">>)}

\* GPTResearcher.add_costs(cost): a value that is neither float nor int raises
\* ValueError before the total is touched; every number is added.
AddCosts(cost) ==
    /\ Len(cost_log) < MaxCostCalls
    /\ LET raised == cost.type # "int"
           total == IF raised THEN research_costs ELSE research_costs + cost.val
       IN /\ research_costs' = total
          \* get_costs() after the call
          /\ cost_log' = Append(cost_log, [cost |-> cost, raised |-> raised, total |-> total])
    /\ UNCHANGED outsideCosts

CostInit == CostsAlone /\ CostsIdle
CostNext == \E cost \in CostArguments : AddCosts(cost)
CostSpec == CostInit /\ [][CostNext]_vars

\* ---------------------------------------------------- MCP client manager
\* The MCP research invocations of one task: _execute_mcp_research (and
\* get_search_results) instantiates an MCPRetriever per invocation, whose
\* constructor makes an MCPClientManager of its own, and calls its search(),
\* which blocks the caller until search_async has returned; so the searches of
\* a task run one after the other.  Clients are numbered in the order of
\* their construction; 0 stands for None.
NoClient == 0
NewRetriever ==
    [pc |-> "search", client |-> NoClient, used |-> NoClient, tools_cache |-> "None",
     outcome |-> "none"]

LastReturned ==
    IF mcp_searches = <<>> THEN TRUE ELSE mcp_searches[Len(mcp_searches)].pc = "returned"

\* MCPRetriever.__init__ and the entry of search(): without server
\* configurations search() returns [] at once.
McpInstantiate ==
    /\ Len(mcp_searches) < MaxSearches
    /\ LastReturned
    /\ mcp_searches' = Append(mcp_searches,
                              IF mcp_configs THEN NewRetriever
                              ELSE [NewRetriever EXCEPT !.pc = "returned"])
    /\ UNCHANGED <<mcp_configs, clients_constructed, outsideMcp>>

\* A get_or_create_client that does not look at the slot before it constructs.
GetOrCreateClientUnchecked(client, constructed) ==
    {[client |-> constructed + 1, constructed |-> constructed + 1],
     [client |-> NoClient, constructed |-> constructed]}

\* MCPClientManager.get_or_create_client under _client_lock (no await inside
\* the lock): the client there is, or a new one, or None when the adapters
\* are missing or the construction raises.
GetOrCreateClient(client, constructed) ==
    IF client # NoClient
    THEN {[client |-> client, constructed |-> constructed]}
    ELSE {[client |-> constructed + 1, constructed |-> constructed + 1],
          [client |-> NoClient, constructed |-> constructed]}

\* Stage 1 of search_async: _get_all_tools, i.e. get_all_tools of the manager
\* (get_or_create_client, then client.get_tools(), which may give tools, give
\* none or raise).
McpGetAllTools(s) ==
    /\ s \in DOMAIN mcp_searches
    /\ mcp_searches[s].pc = "search"
    /\ \E c \in GetOrCreateClient(mcp_searches[s].client, clients_constructed) :
          /\ clients_constructed' = c.constructed
          /\ IF c.client = NoClient
             THEN mcp_searches' = [mcp_searches EXCEPT ![s].pc = "finally"]
             ELSE \E tools \in {"tools", "no_tools"} :
                     mcp_searches' =
                        [mcp_searches EXCEPT
                           ![s] = [pc |-> IF tools = "tools" THEN "select" ELSE "finally",
                                   client |-> c.client, used |-> c.client,
                                   tools_cache |-> IF tools = "tools" THEN "tools" ELSE "None",
                                   outcome |-> "none"]]
    /\ UNCHANGED <<mcp_configs, outsideMcp>>

\* Stage 2: select_relevant_tools; nothing selected ends the search.
McpSelectTools(s) ==
    /\ s \in DOMAIN mcp_searches
    /\ mcp_searches[s].pc = "select"
    /\ \E selected \in BOOLEAN :
          mcp_searches' = [mcp_searches EXCEPT ![s].pc = IF selected THEN "research" ELSE "finally"]
    /\ UNCHANGED <<mcp_configs, clients_constructed, outsideMcp>>

\* Stage 3: conduct_research_with_tools with the tools of the client; results
\* or an exception, both lead to the finally clause.
McpConductResearch(s) ==
    /\ s \in DOMAIN mcp_searches
    /\ mcp_searches[s].pc = "research"
    /\ \E outcome \in {"results", "exception"} :
          mcp_searches' = [mcp_searches EXCEPT ![s].pc = "finally", ![s].outcome = outcome]
    /\ UNCHANGED <<mcp_configs, clients_constructed, outsideMcp>>

\* A close_client that leaves the reference as it is.
CloseClientKeepsReference(client) == client

\* MCPClientManager.close_client under _client_lock: the reference is cleared.
CloseClient(client) == NoClient

\* The finally clause of search_async, then search() returns.
McpCloseClient(s) ==
    /\ s \in DOMAIN mcp_searches
    /\ mcp_searches[s].pc = "finally"
    /\ mcp_searches' = [mcp_searches EXCEPT ![s].pc = "returned",
                                            ![s].client = CloseClient(@)]
    /\ UNCHANGED <<mcp_configs, clients_constructed, outsideMcp>>

McpInit ==
    /\ McpAlone
    /\ mcp_configs \in BOOLEAN
    /\ mcp_searches = <<>>
    /\ clients_constructed = 0

McpNext ==
    \/ McpInstantiate
    \/ \E s \in 1..MaxSearches : McpGetAllTools(s)
    \/ \E s \in 1..MaxSearches : McpSelectTools(s)
    \/ \E s \in 1..MaxSearches : McpConductResearch(s)
    \/ \E s \in 1..MaxSearches : McpCloseClient(s)

McpSpec == McpInit /\ [][McpNext]_vars

\* --------------------------------------------------------- browser scraper
\* Hosts of the URLs that are scraped, as lists of labels.
Hosts == {<<"www", "example", "com">>, <<"example", "com">>, <<"other", "org">>}

\* NoDriverScraper.get_domain(url): the last two labels of a host that has more
\* than two, else the host.
get_domain(host) ==
    IF Len(host) > 2 THEN SubSeq(host, Len(host) - 1, Len(host)) ELSE host
Domains == {get_domain(h) : h \in Hosts}

\* The URL of each scrape_async call.
HostOf(i) ==
    IF i = 1 THEN <<"www", "example", "com">>
    ELSE IF i = 2 THEN <<"other", "org">>
    ELSE <<"example", "com">>

\* The hosts whose pages may fail to load or to be read; the other hosts
\* always answer.
FailingHosts == {<<"www", "example", "com">>}
NavigationOutcomes(host) == {"page"} \cup (IF host \in FailingHosts THEN {"raises"} ELSE {})
ExtractionOutcomes(host) == {"text"} \cup (IF host \in FailingHosts THEN {"error"} ELSE {})

Scrapers == 1..NumScrapes
NoScrape == 0
NoBrowser == 0
\* Browser.__init__: processing_count = 0, no semaphore yet (a domain without
\* semaphore and a domain whose semaphore is free both read NoScrape).
NewBrowser ==
    [place |-> "pool", processing_count |-> 0,
     domain_semaphores |-> [d \in Domains |-> NoScrape]]
NewScrape == [pc |-> "start", browser |-> NoBrowser, result |-> "none"]

Pool == {b \in DOMAIN browsers : browsers[b].place = "pool"}

\* min(cls.browsers, key=processing_count): a browser of the pool with the
\* least count (which one of several is up to the iteration order of the set).
LeastLoaded ==
    {b \in Pool : \A c \in Pool : browsers[b].processing_count <= browsers[c].processing_count}

\* NoDriverScraper.get_browser under browsers_lock: the browsers it may
\* return, 0 standing for a browser to be created.
GetBrowser ==
    IF Pool = {} THEN {NoBrowser}
    ELSE IF /\ \A b \in LeastLoaded : browsers[b].processing_count >= browser_load_threshold
            /\ Cardinality(Pool) < max_browsers
         THEN {NoBrowser}
         ELSE LeastLoaded

\* Browser.get up to the semaphore: processing_count += 1, then the semaphore
\* of the domain is taken when it is free (the navigation starts) or waited for.
EnterGet(bs, b, i) ==
    LET d == get_domain(HostOf(i))
        free == bs[b].domain_semaphores[d] = NoScrape
    IN [browsers |-> [bs EXCEPT ![b].processing_count = @ + 1,
                                ![b].domain_semaphores[d] = IF free THEN i ELSE @],
        pc |-> IF free THEN "navigating" ELSE "waiting"]

\* scrape_async from its start to the first wait inside Browser.get.  A browser
\* that has to be created may fail to start: the exception is caught and
\* scrape_async returns the error text.
ScrapeStart(i) ==
    /\ i \in DOMAIN scrapes
    /\ scrapes[i].pc = "start"
    /\ \E b \in GetBrowser :
          IF b = NoBrowser
          THEN \E started \in BOOLEAN :
                  IF started
                  THEN LET e == EnterGet(Append(browsers, NewBrowser), Len(browsers) + 1, i)
                       IN /\ browsers' = e.browsers
                          /\ scrapes' = [scrapes EXCEPT ![i].pc = e.pc,
                                                        ![i].browser = Len(browsers) + 1]
                  ELSE /\ scrapes' = [scrapes EXCEPT ![i].pc = "done", ![i].result = "error"]
                       /\ UNCHANGED browsers
          ELSE LET e == EnterGet(browsers, b, i)
               IN /\ browsers' = e.browsers
                  /\ scrapes' = [scrapes EXCEPT ![i].pc = e.pc, ![i].browser = b]
    /\ UNCHANGED outsideScraper

\* "async with semaphore" of a waiting call once the semaphore is free, the
\* sleep that follows a contended acquisition, and the start of the navigation.
ScrapeAcquire(i) ==
    /\ i \in DOMAIN scrapes
    /\ scrapes[i].pc = "waiting"
    /\ LET b == scrapes[i].browser
           d == get_domain(HostOf(i))
       IN /\ browsers[b].domain_semaphores[d] = NoScrape
          /\ browsers' = [browsers EXCEPT ![b].domain_semaphores[d] = i]
    /\ scrapes' = [scrapes EXCEPT ![i].pc = "navigating"]
    /\ UNCHANGED outsideScraper

\* A semaphore that stays taken when the navigation raised.
SemaphoreKeptOnError(holder, outcome) == IF outcome = "raises" THEN holder ELSE NoScrape
\* Leaving "async with semaphore", with or without an exception: released.
SemaphoreAfter(holder, outcome) == NoScrape

\* driver.get(url) ends.  With a page, scrape_async goes on to the extraction.
\* With an exception: rate_limit_for_domain catches it after the semaphore is
\* released and does not raise it again, so Browser.get returns None with the
\* count still incremented; wait_or_timeout(None, ...) raises, scrape_async
\* returns the error text, and its finally clause closes no page (there is
\* none) and finds the browser still counted as busy.
ScrapeNavigated(i) ==
    /\ i \in DOMAIN scrapes
    /\ scrapes[i].pc = "navigating"
    /\ \E outcome \in NavigationOutcomes(HostOf(i)) :
          LET b == scrapes[i].browser
              d == get_domain(HostOf(i))
          IN /\ browsers' = [browsers EXCEPT
                               ![b].domain_semaphores[d] = SemaphoreAfter(@, outcome)]
             /\ scrapes' = IF outcome = "page"
                           THEN [scrapes EXCEPT ![i].pc = "page"]
                           ELSE [scrapes EXCEPT ![i].pc = "done", ![i].result = "error"]
    /\ UNCHANGED outsideScraper

\* NoDriverScraper.release_browser: a browser nobody is counted on is stopped
\* and leaves the pool.
ReleaseBrowser(browser) ==
    IF browser.processing_count <= 0 THEN [browser EXCEPT !.place = "stopped"] ELSE browser

\* The rest of scrape_async with a page: waiting, scrolling and extraction,
\* which give the text or raise, then the finally clause: close_page
\* (processing_count -= 1) and release_browser.
ScrapeFinish(i) ==
    /\ i \in DOMAIN scrapes
    /\ scrapes[i].pc = "page"
    /\ \E outcome \in ExtractionOutcomes(HostOf(i)) :
          scrapes' = [scrapes EXCEPT ![i].pc = "done", ![i].result = outcome]
    /\ LET b == scrapes[i].browser
       IN browsers' = [browsers EXCEPT
                         ![b] = ReleaseBrowser([@ EXCEPT !.processing_count = @ - 1])]
    /\ UNCHANGED outsideScraper

ScraperInit ==
    /\ ScraperAlone
    /\ browsers = <<>>
    /\ scrapes = [i \in Scrapers |-> NewScrape]

ScraperNext ==
    \/ \E i \in Scrapers : ScrapeStart(i)
    \/ \E i \in Scrapers : ScrapeAcquire(i)
    \/ \E i \in Scrapers : ScrapeNavigated(i)
    \/ \E i \in Scrapers : ScrapeFinish(i)

ScraperSpec == ScraperInit /\ [][ScraperNext]_vars

\* ------------------------------------- concurrent calls on one manager
\* Coroutines of one event loop call get_or_create_client and close_client
\* on the same MCPClientManager.  Each call first takes _client_lock ("async
\* with", where a coroutine waits while another one holds the lock) and then
\* runs its body, which has no await; leaving the "async with" frees the lock.
\* manager.made[k] is the number of closes that had been done when client k
\* was constructed, manager.closes the number of close_client calls done.
ManagerOps == {"get_or_create_client", "close_client"}

\* A coroutine calls one of the two methods and reaches the "async with".
ManagerCall(op) ==
    /\ Len(manager_calls) < MaxManagerCalls
    /\ manager_calls' = Append(manager_calls,
                               [op |-> op, pc |-> "acquire", result |-> NoClient, closes |-> 0])
    /\ UNCHANGED <<manager, outsideManager>>

\* "async with self._client_lock": entered when no coroutine holds the lock.
ManagerAcquire(c) ==
    /\ c \in DOMAIN manager_calls
    /\ manager_calls[c].pc = "acquire"
    /\ manager.lock = 0
    /\ manager' = [manager EXCEPT !.lock = c]
    /\ manager_calls' = [manager_calls EXCEPT ![c].pc = "locked"]
    /\ UNCHANGED outsideManager

\* The body of get_or_create_client: the client of the slot, or a new one
\* stored in the slot, or None; the lock is freed and the call returns.
ManagerGetOrCreate(c) ==
    /\ c \in DOMAIN manager_calls
    /\ manager_calls[c].pc = "locked"
    /\ manager_calls[c].op = "get_or_create_client"
    /\ \E r \in GetOrCreateClient(manager.client, Len(manager.made)) :
          /\ manager' = [manager EXCEPT
                           !.client = r.client,
                           !.lock = 0,
                           !.made = IF r.constructed > Len(@)
                                    THEN Append(@, manager.closes) ELSE @]
          /\ manager_calls' = [manager_calls EXCEPT ![c].pc = "returned",
                                                    ![c].result = r.client,
                                                    ![c].closes = manager.closes]
    /\ UNCHANGED outsideManager

\* The body of close_client: the reference is cleared; the lock is freed.
ManagerClose(c) ==
    /\ c \in DOMAIN manager_calls
    /\ manager_calls[c].pc = "locked"
    /\ manager_calls[c].op = "close_client"
    /\ manager' = [manager EXCEPT !.client = CloseClient(@), !.lock = 0, !.closes = @ + 1]
    /\ manager_calls' = [manager_calls EXCEPT ![c].pc = "returned",
                                              ![c].closes = manager.closes + 1]
    /\ UNCHANGED outsideManager

ManagerInit == ManagerAlone /\ ManagerIdle

ManagerNext ==
    \/ \E op \in ManagerOps : ManagerCall(op)
    \/ \E c \in 1..MaxManagerCalls : ManagerAcquire(c)
    \/ \E c \in 1..MaxManagerCalls : ManagerGetOrCreate(c)
    \/ \E c \in 1..MaxManagerCalls : ManagerClose(c)

ManagerSpec == ManagerInit /\ [][ManagerNext]_vars

\* ----------------------------------- a second conduct_research
\* GPTResearcher makes its ResearchConductor once, in its constructor, and
\* every conduct_research of the researcher runs on that conductor.  A second
\* run starts from what a first run that returned has left: the conductor's
\* _mcp_results_cache is assigned in the constructor and in the pre-pass only,
\* so it still holds what the pre-pass of the first run stored for the query
\* the researcher had then (the same query, or another one when the caller
\* has changed researcher.query in between).  The history variables count
\* from the start of the second run.
FirstRunQueries == {OriginalQuery, "q3"}
CachesOfFirstRun(rs, strategy, vb, ws) ==
    IF HasMcp(rs) /\ strategy \notin {"disabled", "deep"}
    THEN {PyList(o.entries) :
            o \in {x \in UNION {ExecuteMcpForQuery(q, vb, ws) : q \in FirstRunQueries} : ~x.raised}}
    ELSE {PyNone}

SecondRunInit ==
    /\ retrievers \in RetrieverLists
    /\ mcp_strategy \in Strategies
    /\ report_type \in ReportTypes
    /\ verbose \in BOOLEAN
    /\ websocket \in WebSockets
    /\ agent = "agent"                  \* chosen by the first run at the latest
    /\ visited_urls \in SUBSET Urls
    /\ context = PyList(<<>>)
    /\ mcp_results_cache \in CachesOfFirstRun(retrievers, mcp_strategy, verbose, websocket)
    /\ pc = "conduct_research"
    /\ sub_queries = <<>>
    /\ llm_calls = <<>>
    /\ plan = PyNone
    /\ tasks = <<>>
    /\ mcp_invocations = NoInvocations
    /\ scraper_urls = [u \in Urls |-> 0]
    /\ healthy_urls = {}
    /\ survivor_urls = {}
    /\ skipped_urls = {}
    /\ ComponentsIdle
    /\ cache_writes = 0

SecondRunSpec == SecondRunInit /\ [][Next]_vars

\* ------------------------------------------------------------- properties
\* No stream_output of a verbose event can raise.
EventsGoThrough == ~verbose \/ websocket = "healthy"

\* The occurrences of a URL in the new-URL lists the running coroutines hold.
Pending(u) ==
    SumOver([i \in DOMAIN tasks |->
               IF Running(tasks[i])
               THEN Cardinality({k \in 1..Len(tasks[i].new_urls) : tasks[i].new_urls[k] = u})
               ELSE 0],
            DOMAIN tasks)

\* A _get_new_urls call waits at an event with the URL still in its input.
StillToLookAt(u) ==
    \E i \in DOMAIN tasks : tasks[i].pc = "new_urls" /\ u \in Range(tasks[i].found)

\* The sub-query contexts from index i on, the empty ones left out, a blank
\* between two of them.
RECURSIVE ConcatFrom(_, _, _)
ConcatFrom(results, i, first) ==
    IF i > Len(results) THEN <<>>
    ELSE IF results[i] = <<>> THEN ConcatFrom(results, i + 1, first)
    ELSE (IF first THEN <<>> ELSE <<" ">>) \o results[i] \o ConcatFrom(results, i + 1, FALSE)

\* C1: with an MCP retriever configured and strategy fast, a conduct_research
\* that has returned (all events delivered) made exactly one MCPRetriever
\* search, with the original query.
C1_FastExactlyOneInvocation ==
    (pc = "done" /\ mcp_strategy = "fast" /\ HasMcp(retrievers) /\ websocket = "healthy")
        => /\ TotalInvocations = 1
           /\ SumOver(mcp_invocations, Sites \X {OriginalQuery}) = 1

\* C2: with an MCP retriever configured and strategy disabled, no MCPRetriever
\* search is made at any point of conduct_research.
C2_DisabledNoInvocation ==
    (mcp_strategy = "disabled" /\ HasMcp(retrievers)) => TotalInvocations = 0

\* C3: with an MCP retriever configured and strategy deep, a conduct_research
\* that has returned (all events delivered) made as many MCPRetriever searches
\* as the fanned-out sub-query list is long.
C3_DeepOnePerSubQuery ==
    (pc = "done" /\ mcp_strategy = "deep" /\ HasMcp(retrievers) /\ websocket = "healthy")
        => TotalInvocations = Len(sub_queries)

\* C4: in fast mode the MCP cache has been written exactly once when the
\* sub-query coroutines exist and is not written again; every coroutine that
\* has read it holds the cached entries.
C4_CacheWrittenOnce ==
    /\ cache_writes <= 1
    /\ InvocationsAt("subquery") > 0 => mcp_strategy # "fast"
    /\ (mcp_strategy = "fast" /\ HasMcp(retrievers) /\ tasks # <<>>)
          => /\ cache_writes = 1
             /\ mcp_results_cache.type = "list"
             /\ \A i \in DOMAIN tasks :
                   tasks[i].pc \in {"search", "new_urls", "scrape"}
                      => tasks[i].mcp_context = mcp_results_cache.val

\* Two coroutines have read a non-empty cache, at different stages.
C4_Witness ==
    /\ mcp_strategy = "fast"
    /\ cache_writes = 1
    /\ mcp_results_cache.val # <<>>
    /\ \E i, j \in DOMAIN tasks :
          /\ tasks[i].pc = "search"
          /\ tasks[j].pc = "scrape"
          /\ tasks[i].mcp_context = mcp_results_cache.val
          /\ tasks[j].mcp_context = mcp_results_cache.val

\* C5: no URL is handed to the scraper twice: each URL is in the new URLs of
\* at most one _get_new_urls call (handed to the scraper or still held by the
\* coroutine), and only visited URLs are.
C5_NoUrlScrapedTwice ==
    pc # "conduct_research"
       => \A u \in Urls :
             /\ scraper_urls[u] + Pending(u) <= 1
             /\ scraper_urls[u] + Pending(u) = 1 => u \in visited_urls

\* With a single retriever (no URL twice in one list), a URL one coroutine
\* took was found again by another, and it went to the scraper once.
C5_Witness ==
    /\ Len(retrievers) = 1
    /\ \E u \in skipped_urls : scraper_urls[u] = 1
    /\ \A i \in DOMAIN tasks : tasks[i].pc = "done"
    /\ Len(tasks) >= 2

\* C6: sub-query planning raises nothing, returns a list, and the fan-out
\* runs at least one sub-query.
C6_PlannerNeverFails ==
    /\ pc # "raised_in_generate_sub_queries"
    /\ pc = "fan_out" => plan.type = "list"
    /\ pc # "raised_in_append"
    /\ pc = "gather" => sub_queries # <<>>

\* C7: choose_agent raises nothing and returns a persona for every outcome of
\* the LLM call.
C7_ChooseAgentNeverRaises ==
    /\ pc # "raised_in_choose_agent"
    /\ pc = "prepass" => agent \in {"agent", DefaultAgent}

C9_NoCoroutineOutlivesFanOut ==
    pc \in {"finish", "done"} => \A i \in DOMAIN tasks : ~Running(tasks[i])

C11_CombinedEmptyIffBothEmpty ==
    call.fn = "combine" /\ returned.done
        => (returned.val = <<>> <=> (call.mcp_context = <<>> /\ call.web_context = <<>>))

\* C12: in the final joined context no url is carried by more than one entry:
\* the citation of a url appears at most once.
C12_NoUrlCarriedTwice ==
    pc = "done" /\ context.type = "str"
        => \A u \in {"cite(mcp://tool)", "cite(other)"} :
              Cardinality({k \in 1..Len(context.val) : context.val[k] = u}) <= 1

\* C13: for every combination of the option mcp_strategy, the older option
\* mcp_max_iterations and the configured MCP_STRATEGY, the strategy in use is
\* fast, deep or disabled and is taken from the option when one is given, else
\* from the configuration when it has one, else fast; optimized reads as
\* fast, comprehensive as deep, any other unknown name as fast.
ReadAs(name) ==
    CASE name = "optimized" -> "fast"
      [] name = "comprehensive" -> "deep"
      [] name \in Strategies -> name
      [] OTHER -> "fast"
C13_StrategyByPriority ==
    call.fn = "resolve" /\ returned.done
        => /\ returned.val \in Strategies
           /\ returned.val = IF call.option.type # "None" THEN ReadAs(call.option.val)
                             ELSE IF call.config # "absent" THEN ReadAs(call.config)
                             ELSE "fast"

\* C14: the cost total never decreases: of two totals observed one after the
\* other (the construction value 0.0 first) the later is at least the earlier,
\* and a call that is rejected leaves the total as it was.
TotalBefore(i) == IF i = 1 THEN 0 ELSE cost_log[i - 1].total
C14_CostsMonotonic ==
    \A i \in 1..Len(cost_log) :
        /\ TotalBefore(i) <= cost_log[i].total
        /\ cost_log[i].raised => cost_log[i].total = TotalBefore(i)

\* C15: in MCP research a tool call that raises, names a tool that was not
\* selected, or returns an empty result is skipped and the loop goes on: every
\* call of the list that names a selected tool is invoked, and the entries of
\* the calls that succeeded are returned, all of them, in tool-call order
\* (followed by the LLM's own analysis when it wrote one).
Succeeded(tool_call) ==
    tool_call.name \in SelectedToolNames /\ Truthy(tool_call.outcome)
RECURSIVE EntriesInCallOrder(_)
EntriesInCallOrder(tool_calls) ==
    IF tool_calls = <<>> THEN <<>>
    ELSE (IF Succeeded(Head(tool_calls))
          THEN ProcessToolResult(Head(tool_calls).name, Head(tool_calls).outcome)
          ELSE <<>>) \o EntriesInCallOrder(Tail(tool_calls))
C15_FailedToolCallSkipped ==
    call.fn = "research" /\ returned.done
        => /\ \A i \in 1..Len(call.tool_calls) :
                 call.tool_calls[i].name \in SelectedToolNames
                     => \E k \in 1..Len(returned.invoked) : returned.invoked[k] = i
           /\ \A k \in 1..Len(returned.invoked) - 1 : returned.invoked[k] < returned.invoked[k + 1]
           /\ returned.val = EntriesInCallOrder(call.tool_calls) \o LlmAnalysis(call.content)
\* A call that raises stands before a call that names an unknown tool and a
\* call that succeeded; the entry of the last one is returned.
C15_Witness ==
    /\ call.fn = "research" /\ returned.done
    /\ Len(call.tool_calls) = 3
    /\ call.tool_calls[1].name = "toolA" /\ call.tool_calls[1].outcome.type = "raises"
    /\ call.tool_calls[2].name = "toolX"
    /\ Succeeded(call.tool_calls[3])
    /\ returned.invoked = <<1, 3>>
    /\ Len(returned.val) = 1

\* C20: of a tool result that is a list the normaliser makes exactly one entry
\* per item, in the order of the list, whatever the items are (mappings with
\* or without a title, strings, numbers).
C20_OneEntryPerListItem ==
    call.fn = "normalise" /\ returned.done
        => /\ Len(returned.val) = Len(call.result.val)
           /\ \A i \in 1..Len(returned.val) : returned.val[i].body = call.result.val[i].text

\* C19: select_relevant_tools returns at most max_tools tools (max_tools
\* lowered to the number of tools there are), each of them one of all_tools,
\* whatever the LLM answers and on the keyword fallback.
C19_AtMostMaxTools ==
    call.fn = "select" /\ returned.done
        => /\ Len(returned.val) <= Min(call.max_tools, Len(call.all_tools))
           /\ \A k \in 1..Len(returned.val) : returned.val[k] \in Range(call.all_tools)

\* C16: the MCP client of a task is made on the first tool enumeration and
\* used from then on: all MCP research invocations of the task work with the
\* same client instance and no second client is constructed.
C16_OneClientPerTask ==
    /\ clients_constructed <= 1
    /\ \A s, t \in DOMAIN mcp_searches :
          mcp_searches[s].used # NoClient /\ mcp_searches[t].used # NoClient
              => mcp_searches[s].used = mcp_searches[t].used

\* C17: at any time at most one page navigation is in flight for a registrable
\* domain, however many scrape_async calls run and however many browsers the
\* pool holds.
NavigationsTo(d) ==
    {i \in DOMAIN scrapes : scrapes[i].pc = "navigating" /\ get_domain(HostOf(i)) = d}
C17_OneNavigationPerDomain ==
    \A d \in Domains : Cardinality(NavigationsTo(d)) <= 1

\* C18: a failing URL is isolated: a scrape whose navigation or extraction
\* raised has returned a result (the error text), the semaphore of its domain
\* is not left taken (a taken semaphore always belongs to a navigation that is
\* in flight on that browser for that domain), and so every scrape that waits
\* for a semaphore waits for a navigation that will end, or can go on at once.
HolderOf(i) == browsers[scrapes[i].browser].domain_semaphores[get_domain(HostOf(i))]
C18_FailingUrlIsolated ==
    /\ \A i \in DOMAIN scrapes :
          scrapes[i].pc = "done" <=> scrapes[i].result \in {"text", "error"}
    /\ \A b \in DOMAIN browsers : \A d \in Domains :
          LET h == browsers[b].domain_semaphores[d] IN
          h # NoScrape => /\ scrapes[h].pc = "navigating"
                          /\ scrapes[h].browser = b
                          /\ get_domain(HostOf(h)) = d
    /\ \A i \in DOMAIN scrapes :
          scrapes[i].pc = "waiting"
              => HolderOf(i) = NoScrape \/ scrapes[HolderOf(i)].pc = "navigating"
\* The navigation of www.example.com raised (its browser is still counted as
\* busy for it); all scrapes have returned, the one of other.org and the one
\* of example.com on the same browser with their texts.
C18_Witness ==
    /\ \A i \in DOMAIN scrapes : scrapes[i].pc = "done"
    /\ DOMAIN scrapes # {}
    /\ scrapes[1].result = "error" /\ scrapes[1].browser # NoBrowser
    /\ browsers[scrapes[1].browser].processing_count > 0
    /\ scrapes[2].result = "text" /\ scrapes[2].browser = scrapes[1].browser
    /\ scrapes[3].result = "text" /\ scrapes[3].browser = scrapes[1].browser

\* C28: every scrape restores processing_count: once all scrape_async calls
\* have returned, whether with a text or after an exception, every browser
\* counts 0 and has been stopped and taken out of the pool.
C28_ProcessingCountRestored ==
    (DOMAIN scrapes # {} /\ \A i \in DOMAIN scrapes : scrapes[i].pc = "done")
        => \A b \in DOMAIN browsers :
              browsers[b].processing_count = 0 /\ browsers[b].place = "stopped"

\* C25: sub-query generation follows the retry ladder: the strategic LLM
\* first, the strategic LLM with max_tokens = strategic_token_limit only after
\* the first call raised, the smart LLM only after the retry raised; at most
\* three calls are made, and the first response obtained is the one parsed.
RetryLadder ==
    <<[model |-> "strategic", max_tokens |-> "None"],
      [model |-> "strategic", max_tokens |-> "strategic_token_limit"],
      [model |-> "smart", max_tokens |-> "smart_token_limit"]>>
C25_RetryLadder ==
    pc \in {"fan_out", "raised_in_generate_sub_queries"} /\ llm_calls # <<>>
        => /\ Len(llm_calls) <= 3
           /\ \A k \in 1..Len(llm_calls) :
                 /\ llm_calls[k].model = RetryLadder[k].model
                 /\ llm_calls[k].max_tokens = RetryLadder[k].max_tokens
                 /\ k < Len(llm_calls) => llm_calls[k].outcome = LlmRaises
           /\ IF pc = "fan_out"
              THEN /\ llm_calls[Len(llm_calls)].outcome # LlmRaises
                   /\ plan = JsonRepairLoads(llm_calls[Len(llm_calls)].outcome)
              ELSE Len(llm_calls) = 3 /\ llm_calls[3].outcome = LlmRaises
\* Two calls raised and the smart LLM gave the sub-queries that are planned.
C25_Witness ==
    /\ pc = "fan_out"
    /\ Len(llm_calls) = 3
    /\ plan.type = "list" /\ plan.val # <<>>

\* C30: a subscriber whose send_json raises does not abort research: no
\* conduct_research is left by the exception of a progress event, neither of
\* the events conduct_research itself streams nor of the event that announces
\* the sub-queries before the fan-out.
C30_SendFailureDoesNotAbort ==
    pc \notin {"raised_in_conduct_research", "raised_in_fan_out"}

\* C29: every search_async that has server configurations leaves the client
\* slot of its manager empty when it returns, on each exit path: results, no
\* tools available, no tool selected, exception.
C29_ClientSlotEmptyOnReturn ==
    \A s \in DOMAIN mcp_searches :
       mcp_searches[s].pc = "returned" => mcp_searches[s].client = NoClient
\* A search that made a client and whose research raised has returned.
C29_Witness ==
    \E s \in DOMAIN mcp_searches :
       /\ mcp_searches[s].pc = "returned"
       /\ mcp_searches[s].used # NoClient
       /\ mcp_searches[s].outcome = "exception"

\* C26: the mutations of the client slot are serialised by the lock: under
\* every interleaving of concurrent get_or_create_client and close_client
\* calls on one manager, at most one client is constructed between two
\* closes, and the get_or_create_client calls that return a client between
\* two closes return the same instance.
C26_OneClientBetweenCloses ==
    /\ \A j, k \in DOMAIN manager.made : manager.made[j] = manager.made[k] => j = k
    /\ \A c, d \in DOMAIN manager_calls :
          /\ manager_calls[c].op = "get_or_create_client"
          /\ manager_calls[d].op = "get_or_create_client"
          /\ manager_calls[c].pc = "returned" /\ manager_calls[d].pc = "returned"
          /\ manager_calls[c].result # NoClient /\ manager_calls[d].result # NoClient
          /\ manager_calls[c].closes = manager_calls[d].closes
          => manager_calls[c].result = manager_calls[d].result
\* Two calls that had waited for the lock together returned the same client,
\* and after a close a later call constructed a second one.
C26_Witness ==
    /\ Len(manager.made) = 2
    /\ \E c, d \in DOMAIN manager_calls :
          /\ c # d
          /\ manager_calls[c].op = "get_or_create_client"
          /\ manager_calls[d].op = "get_or_create_client"
          /\ manager_calls[c].pc = "returned" /\ manager_calls[d].pc = "returned"
          /\ manager_calls[c].result = 1 /\ manager_calls[d].result = 1

\* C27: the MCP result cache is task-scoped: a second conduct_research on the
\* same researcher in fast mode runs MCP research once again, with that run's
\* query, and its sub-query coroutines hold no entry cached by the first run.
C27_CacheIsTaskScoped ==
    (mcp_strategy = "fast" /\ HasMcp(retrievers) /\ tasks # <<>>)
       => /\ cache_writes = 1
          /\ EventsGoThrough => mcp_invocations[<<"prepass", OriginalQuery>>] = 1
          /\ \A i \in DOMAIN tasks : \A k \in DOMAIN tasks[i].mcp_context :
                tasks[i].mcp_context[k].query = OriginalQuery

\* C22: for every MCP server configuration the transport of its entry in the
\* server map is the explicit connection_type when there is one, else
\* websocket for a URL that starts with ws:// or wss://, streamable HTTP for
\* one that starts with http:// or https://, and stdio otherwise; and each
\* configuration has its own entry of the map.
TransportByRule(config) ==
    IF config.connection_type # PyNone THEN config.connection_type.val
    ELSE IF config.connection_url = PyNone THEN "stdio"
    ELSE IF config.connection_url.val[1] \in {"ws://", "wss://"} THEN "websocket"
    ELSE IF config.connection_url.val[1] \in {"http://", "https://"} THEN "streamable_http"
    ELSE "stdio"
C22_TransportPerConfig ==
    (call.fn = "convert" /\ returned.done)
       => /\ Cardinality(DOMAIN returned.val) = Len(call.configs)
          /\ \A i \in DOMAIN call.configs :
                /\ ServerName(call.configs[i], i) \in DOMAIN returned.val
                /\ returned.val[ServerName(call.configs[i], i)].transport
                      = TransportByRule(call.configs[i])

\* C21: the result normaliser is idempotent on its own output: run on a
\* normalised record, or on a list of them, in the retriever shape or in the
\* context entry shape, it returns the same records with title, url and body
\* unchanged.
TitleUrlBody(d) ==
    IF "href" \in DOMAIN d THEN <<d.title, d.href, d.body>> ELSE <<d.title, d.url, d.content>>
C21_NormaliserIdempotent ==
    (call.fn = "renormalise" /\ returned.done)
       => LET given == IF call.alone THEN <<call.records[1]>> ELSE call.records
          IN /\ Len(returned.val) = Len(given)
             /\ \A k \in DOMAIN given : TitleUrlBody(returned.val[k]) = TitleUrlBody(given[k])

\* C23: source curation is best effort: when the LLM call is made and raises,
\* or its response does not parse as JSON, curate_sources raises nothing and
\* returns the source data it was given, unchanged.
C23_CurationBestEffort ==
    (call.fn = "curate" /\ returned.done /\ call.sent[1] /\ call.llm \in {"raises", "text"})
       => ~returned.raised /\ returned.val = call.source_data

\* C24: the readiness probe always answers, with status 200 and a "ready"
\* field that is true exactly when the issue list is empty; a credential that
\* an enabled retriever or provider lacks is an issue of that list and not an
\* error; the health probe answers 200 with status "ok" in every
\* configuration.
MissingCredentials(env) ==
    {m \in [missing : EnvKeys, for : env.retrievers \cup env.providers] :
        m.missing \in (retriever_requirements(m.for) \cup provider_requirements(m.for)) \ env.set}
C24_ProbesAlwaysAnswer ==
    (call.fn = "probe" /\ returned.done)
       => /\ returned.val.answered
          /\ returned.val.status_code = 200
          /\ call.path = "/healthz" => returned.val.json.status = "ok"
          /\ call.path = "/readyz" =>
                /\ returned.val.json.ready <=> returned.val.json.issues = {}
                /\ MissingCredentials(call.env) \subseteq returned.val.json.issues

====
